---- MODULE Spec2Model ----
(***************************************************************************)
(* Verification model of the InkGoose client-side sync engine.             *)
(*                                                                         *)
(* Spec      the scheduler and orchestrator of SyncService (operation      *)
(*           queue, active set, progress counters, completion handles,     *)
(*           sync passes), run on a single event loop: every handler runs  *)
(*           to its next await atomically, promise reactions run from a    *)
(*           FIFO microtask queue, and external completions (transport,    *)
(*           file I/O, the conflict dialog, calls of the public API) are   *)
(*           macrotasks that run only when the microtask queue is empty.   *)
(* SpecLoad  the same scheduler with vaults that have many files out of    *)
(*           sync, enough to fill the five slots and leave a backlog.      *)
(* SpecConflict  one pass whose operations run into conflicts.             *)
(* SpecFiles uploadFile and downloadFile step by step, one step per await, *)
(*           on the metadata file, the local files and the remote store.   *)
(* SpecDrain one pass of one upload and six downloads, with weak fairness  *)
(*           of the microtask queue and of the completion of executing     *)
(*           attempts, for the progress of the queue.                      *)
(* SpecPlan  checkSync computing the actions of a pass from the local      *)
(*           files and the answer of the remote store.                     *)
(* SpecSync  whole passes on the files of one vault: each pass asks the    *)
(*           remote store and runs the calls of its actions to their end,  *)
(*           the user and another device act between passes.               *)
(* SpecRepeat  performBackgroundSync called again for a vault while the    *)
(*           operations of the pass before are queued or executing.        *)
(* SpecNotify  passes whose plan fetch succeeds, with weak fairness of the  *)
(*           microtask queue and of the completion of executing attempts,  *)
(*           for what the onProgress callback of a pass is given.          *)
(* SpecTimer the variant of the scheduler whose processQueue is re-armed   *)
(*           with setTimeout, on one pass whose downloads fail.            *)
(*                                                                         *)
(* The conflict dialog is the ConflictResolutionModal: it holds the        *)
(* resolve and reject functions of one presentConflictDialog promise.      *)
(***************************************************************************)
EXTENDS Integers, Sequences, FiniteSets, TLC

\* ---------------------------------------------------------------- constants
MAX_CONCURRENT_OPERATIONS == 5
MAX_RETRIES == 3
UPLOAD_PRIORITY == 2
DOWNLOAD_PRIORITY == 1

\* ------------------------------------------------------------------- bounds
MaxPasses == 2
MaxUploads == 1
MaxDownloads == 1
MaxNone == 1
MaxConflicts == 2
MaxIoFailures == 1
MaxOps == 3
ConflictPasses == 1
LoadUploads == 2
LoadDownloads == 6
LoadOps == 8
DrainUploads == 1
DrainDownloads == 6
DrainOps == 7
DrainPasses == 1
PlanPasses == 1
MaxResponse == 2
MaxTasks == 2
MaxEdits == 2
MaxRemote == 1
SyncPasses == 2
RepeatPasses == 2
TimerPasses == 1
TimerDownloads == 5
TimerFailures == 5
NotifyPasses == 1

Vaults == {"v1", "v2"}

VARIABLES
    operationQueue,     \* Seq of operation ids, in array order
    activeOperations,   \* set of operation ids
    isProcessingQueue,  \* BOOLEAN
    progressCallbacks,  \* set of vault ids that have a callback registered
    syncProgress,       \* function: vault id (those present in the Map) -> SyncProgress
    operations,         \* Seq of QueuedOperation objects, index = id
    masterKey,          \* BOOLEAN: CryptoService holds a master key
    passes,             \* Seq of performBackgroundSync calls
    phase,              \* Seq: where the executing attempt of each operation stands
    history,            \* Seq: per operation, what has happened to it so far
    ioFailures,         \* how many attempts failed after I/O so far
    microtasks,         \* FIFO queue of pending promise reactions
    metadataFile,       \* .ink-goose sync metadata file: [exists, entries]
    localFiles,         \* function: path (of the files that exist) -> content
    serverFiles,        \* function: path -> Seq of contents, index = version
    tasks,              \* Seq of uploadFile / downloadFile calls
    environment,        \* how often the user and other devices have acted
    conflictData,       \* ConflictResolutionModal: whose dialog it holds, 0 for null
    timers              \* how many setTimeout callbacks that call processQueue are pending

vars == <<operationQueue, activeOperations, isProcessingQueue, progressCallbacks,
          syncProgress, operations, masterKey, passes, phase, history, ioFailures,
          microtasks, metadataFile, localFiles, serverFiles, tasks, environment,
          conflictData, timers>>

\* what the scheduler leaves alone
fileVars == <<metadataFile, localFiles, serverFiles, tasks, environment>>

\* what uploadFile and downloadFile leave alone
schedVars == <<operationQueue, activeOperations, isProcessingQueue, progressCallbacks,
               syncProgress, operations, passes, phase, history, microtasks>>

\* what leaves the modal alone leaves this alone
modalVars == <<conflictData>>

\* what sets no timer leaves this alone
timerVars == <<timers>>

\* ------------------------------------------------------------------ helpers
\* the element of a one-element set: The({F(x) : x \in {e}}) is F(e), with e
\* evaluated once
The(S) == CHOOSE x \in S : TRUE

Max(a, b) == IF a >= b THEN a ELSE b

\* the filter with its test the wrong way round: keeps the operations of v
RECURSIVE FilterQueueInverted(_, _, _)
FilterQueueInverted(q, ops, v) ==
    IF q = <<>> THEN <<>>
    ELSE IF ops[Head(q)].vaultId = v
         THEN <<Head(q)>> \o FilterQueueInverted(Tail(q), ops, v)
         ELSE FilterQueueInverted(Tail(q), ops, v)

\* operationQueue.filter(op => op.vaultId !== vaultId)
RECURSIVE FilterQueue(_, _, _)
FilterQueue(q, ops, v) ==
    IF q = <<>> THEN <<>>
    ELSE IF ops[Head(q)].vaultId # v
         THEN <<Head(q)>> \o FilterQueue(Tail(q), ops, v)
         ELSE FilterQueue(Tail(q), ops, v)

\* a sort that is not stable: operations of equal priority change places
RECURSIVE InsertByPriorityUnstable(_, _, _)
InsertByPriorityUnstable(sorted, id, ops) ==
    IF sorted = <<>> THEN <<id>>
    ELSE IF ops[Head(sorted)].priority > ops[id].priority
         THEN <<Head(sorted)>> \o InsertByPriorityUnstable(Tail(sorted), id, ops)
         ELSE <<id>> \o sorted

\* Array.prototype.sort((a, b) => b.priority - a.priority): stable, descending
RECURSIVE InsertByPriority(_, _, _)
InsertByPriority(sorted, id, ops) ==
    IF sorted = <<>> THEN <<id>>
    ELSE IF ops[Head(sorted)].priority >= ops[id].priority
         THEN <<Head(sorted)>> \o InsertByPriority(Tail(sorted), id, ops)
         ELSE <<id>> \o sorted

RECURSIVE SortByPriority(_, _)
SortByPriority(q, ops) ==
    IF q = <<>> THEN <<>>
    ELSE The({InsertByPriority(sorted, q[Len(q)], ops) :
                 sorted \in {SortByPriority(SubSeq(q, 1, Len(q) - 1), ops)}})

DefaultProgress ==
    [total |-> 0, completed |-> 0, failed |-> 0, inProgress |-> 0, status |-> "idle"]

\* updateProgress(vaultId, update): merge the update into the current snapshot
UpdateProgress(prog, v, update) ==
    LET current == IF v \in DOMAIN prog THEN prog[v] ELSE DefaultProgress
        updated == [f \in DOMAIN current |->
                        IF f \in DOMAIN update THEN update[f] ELSE current[f]]
    IN  [x \in (DOMAIN prog) \cup {v} |-> IF x = v THEN updated ELSE prog[x]]

Job(kind, n) == [job |-> kind, id |-> n]

\* The part of the state the scheduler's synchronous code reads and writes.
Sched ==
    [q |-> operationQueue, act |-> activeOperations, busy |-> isProcessingQueue,
     prog |-> syncProgress, ops |-> operations, ph |-> phase, hist |-> history,
     mq |-> microtasks, ps |-> passes, tm |-> timers]

Install(s) ==
    /\ operationQueue' = s.q
    /\ activeOperations' = s.act
    /\ isProcessingQueue' = s.busy
    /\ syncProgress' = s.prog
    /\ operations' = s.ops
    /\ phase' = s.ph
    /\ history' = s.hist
    /\ microtasks' = s.mq
    /\ passes' = s.ps
    /\ timers' = s.tm

\* the pass whose onProgress is the callback registered for vault v, 0 when
\* none is registered: performBackgroundSync replaces the callback of the
\* pass before
CallbackOf(ps, v) ==
    IF v \in progressCallbacks /\ \E p \in 1..Len(ps) : ps[p].vaultId = v
    THEN CHOOSE p \in 1..Len(ps) :
            /\ ps[p].vaultId = v
            /\ \A o \in 1..Len(ps) : ps[o].vaultId = v => o <= p
    ELSE 0

\* the last lines of updateProgress: the callback registered for the vault is
\* called with the updated snapshot; notified records that the callback of a
\* pass has been given a snapshot whose status is completed
Notify(s, v) ==
    The({IF p # 0 /\ u.prog[v].status = "completed"
         THEN [u EXCEPT !.ps[p].notified = TRUE]
         ELSE u : <<u, p>> \in {<<x, CallbackOf(x.ps, v)>> : x \in {s}}})

\* processOperation up to its first await: an upload without a master key
\* throws before any I/O, every other attempt suspends on I/O.
BeginAttempt(s, id) ==
    LET throws == s.ops[id].type = "upload" /\ ~masterKey
    IN  [s EXCEPT !.ph[id] = IF throws THEN "throwing" ELSE "io",
                  !.hist[id].attempts = @ + 1,
                  !.hist[id].preconditionFailures = IF throws THEN @ + 1 ELSE @,
                  !.mq = IF throws THEN Append(@, Job("processOperation", id)) ELSE @]

\* operation o should be started before operation id: it has the higher
\* priority, or the same priority and entered the queue earlier
Before(s, o, id) ==
    \/ s.ops[o].priority > s.ops[id].priority
    \/ /\ s.ops[o].priority = s.ops[id].priority
       /\ s.hist[o].enqueuedAt < s.hist[id].enqueuedAt

\* one iteration of the while loop of runNext
StartNext(s) ==
    LET sorted == SortByPriority(s.q, s.ops)
        id == Head(sorted)
        act == s.act \cup {id}
        waiting == {s.q[k] : k \in 1..Len(s.q)} \ {id}
        s1 == [s EXCEPT !.q = Tail(sorted),
                        !.act = act,
                        !.hist[id].overtook = @ \/ \E o \in waiting : Before(s, o, id),
                        !.hist[id].jumped = @ \/ \E o \in waiting :
                            s.hist[o].enqueuedAt < s.hist[id].enqueuedAt,
                        !.prog = UpdateProgress(@, s.ops[id].vaultId,
                                                [inProgress |-> Cardinality(act)])]
    IN  The({BeginAttempt(told, id) : told \in {Notify(s1, s.ops[id].vaultId)}})

\* the drain loop with <= for <: it starts a sixth operation
RECURSIVE RunNextOffByOne(_)
RunNextOffByOne(s) ==
    IF Len(s.q) > 0 /\ Cardinality(s.act) <= MAX_CONCURRENT_OPERATIONS
    THEN RunNextOffByOne(StartNext(s))
    ELSE s

\* the while loop of runNext; each iteration works on the state the previous
\* one left
RECURSIVE RunNext(_)
RunNext(s) ==
    IF Len(s.q) > 0 /\ Cardinality(s.act) < MAX_CONCURRENT_OPERATIONS
    THEN The({RunNext(started) : started \in {StartNext(s)}})
    ELSE s

ProcessQueue(s) ==
    IF s.busy THEN s
    ELSE LET s1 == RunNext([s EXCEPT !.busy = TRUE])
         IN  [s1 EXCEPT !.mq = Append(@, Job("processQueueFinally", 0))]

NewHistory == [attempts |-> 0, conflicts |-> 0, dialogs |-> 0, conflictFailures |-> 0,
               handle |-> "pending", failures |-> 0, preconditionFailures |-> 0,
               enqueuedAt |-> 0, overtook |-> FALSE, jumped |-> FALSE]

\* how many times operationQueue.push has been called so far: once for every
\* operation created and once for every retry
RECURSIVE Pushes(_)
Pushes(ops) == IF ops = <<>> THEN 0 ELSE 1 + Head(ops).retries + Pushes(Tail(ops))

\* the data of an operation whose note the plan does not name
NoData == "-"

QueueOperation(s, type, v, data, priority, p) ==
    LET id == Len(s.ops) + 1
        operation == [type |-> type, priority |-> priority, vaultId |-> v, data |-> data,
                      retries |-> 0, maxRetries |-> MAX_RETRIES, pass |-> p]
        s1 == [s EXCEPT !.ops = Append(@, operation),
                        !.ph = Append(@, "none"),
                        !.hist = Append(@, [NewHistory EXCEPT
                                                !.enqueuedAt = Pushes(s.ops) + 1]),
                        !.q = Append(@, id)]
    IN  ProcessQueue(s1)

\* the handle of an operation settles: the reaction Promise.allSettled
\* registered on it is queued
Settle(s, id, how) ==
    [s EXCEPT !.hist[id].handle = how,
              !.mq = Append(@, Job("allSettledElement", s.ops[id].pass))]

\* processOperation after uploadFile / downloadFile returned
Succeed(s, id) ==
    LET v == s.ops[id].vaultId
        cur == IF v \in DOMAIN s.prog THEN s.prog[v] ELSE DefaultProgress
        s1 == [s EXCEPT !.prog = UpdateProgress(@, v, [completed |-> cur.completed + 1]),
                        !.ph[id] = "none"]
        s2 == The({Settle(told, id, "resolved") : told \in {Notify(s1, v)}})
    IN  [s2 EXCEPT !.mq = Append(@, Job("finally", id))]

\* the catch block without the floor of the priority at 0
RetryOrFailNoFloor(s, id) ==
    LET op == s.ops[id]
        v == op.vaultId
        cur == IF v \in DOMAIN s.prog THEN s.prog[v] ELSE DefaultProgress
        ended == [s EXCEPT !.prog = UpdateProgress(@, v, [failed |-> cur.failed + 1]),
                           !.ph[id] = "none"]
    IN  IF op.retries < op.maxRetries
        THEN [s EXCEPT !.ops[id].retries = @ + 1,
                       !.ops[id].priority = @ - 1,
                       !.q = Append(@, id),
                       !.hist[id].enqueuedAt = Pushes(s.ops) + 1,
                       !.ph[id] = "none"]
        ELSE The({Settle(told, id, "rejected") : told \in {Notify(ended, v)}})

\* the catch block of processOperation
RetryOrFail(s, id) ==
    LET op == s.ops[id]
        v == op.vaultId
        cur == IF v \in DOMAIN s.prog THEN s.prog[v] ELSE DefaultProgress
        ended == [s EXCEPT !.prog = UpdateProgress(@, v, [failed |-> cur.failed + 1]),
                           !.ph[id] = "none"]
    IN  IF op.retries < op.maxRetries
        THEN [s EXCEPT !.ops[id].retries = @ + 1,
                       !.ops[id].priority = Max(0, @ - 1),
                       !.q = Append(@, id),
                       !.hist[id].enqueuedAt = Pushes(s.ops) + 1,
                       !.ph[id] = "none"]
        ELSE The({Settle(told, id, "rejected") : told \in {Notify(ended, v)}})

Fail(s, id) ==
    LET s1 == RetryOrFail([s EXCEPT !.hist[id].failures = @ + 1], id)
    IN  [s1 EXCEPT !.mq = Append(@, Job("finally", id))]

\* a .finally callback that frees the slot and does not call runNext
FinallyWithoutRunNext(s, id) ==
    LET act == s.act \ {id}
    IN  Notify([s EXCEPT !.act = act,
                         !.prog = UpdateProgress(@, s.ops[id].vaultId,
                                                 [inProgress |-> Cardinality(act)])],
               s.ops[id].vaultId)

\* the .finally callback attached in runNext
Finally(s, id) ==
    LET act == s.act \ {id}
        s1 == [s EXCEPT !.act = act,
                        !.prog = UpdateProgress(@, s.ops[id].vaultId,
                                                [inProgress |-> Cardinality(act)])]
    IN  The({RunNext(told) : told \in {Notify(s1, s.ops[id].vaultId)}})

\* a combinator that resumes the pass on the first handle that settles
AllSettledElementFirst(s, p) ==
    LET s1 == [s EXCEPT !.ps[p].remaining = @ - 1]
    IN  IF s1.ps[p].pc = "allSettled"
        THEN [s1 EXCEPT !.mq = Append(@, Job("performBackgroundSync", p))]
        ELSE s1

\* the reaction of Promise.allSettled on one settled handle
AllSettledElement(s, p) ==
    LET s1 == [s EXCEPT !.ps[p].remaining = @ - 1]
    IN  IF s1.ps[p].remaining = 0
        THEN [s1 EXCEPT !.mq = Append(@, Job("performBackgroundSync", p))]
        ELSE s1

\* performBackgroundSync after await Promise.allSettled(promises)
FinishPass(s, p) ==
    Notify([s EXCEPT !.prog = UpdateProgress(@, s.ps[p].vaultId,
                                             [status |-> "completed", inProgress |-> 0]),
                     !.ps[p].pc = "returned"],
           s.ps[p].vaultId)

\* ------------------------------------------------------------------ plans
\* A plan is the action list checkSync returned, reduced to what the
\* enqueue loop of performBackgroundSync does with each action: "upload"
\* and "download" are enqueued; "none" stands for every action that is
\* counted in total but not enqueued (none, an upload whose local file is
\* gone, a download without a file id).
Repeat(x, n) == [i \in 1..n |-> x]

Plans ==
    {Repeat("upload", u) \o Repeat("download", d) \o Repeat("none", n) :
        u \in 0..MaxUploads, d \in 0..MaxDownloads, n \in 0..MaxNone}

\* the plans of a vault with many files out of sync
LoadPlans ==
    {Repeat("upload", u) \o Repeat("download", d) :
        u \in {0, LoadUploads}, d \in {0, LoadDownloads}}

\* the plans of a vault with one edited note and six notes to fetch
DrainPlans ==
    {Repeat("upload", u) \o Repeat("download", d) :
        u \in {0, DrainUploads}, d \in {0, DrainDownloads}}

Enqueued(plan) == Cardinality({i \in 1..Len(plan) : plan[i] # "none"})

\* the note in the data of the operation enqueued for action k of pass p:
\* localFile.relativePath of an upload, relativePath of a download
ActionData(s, p, k) ==
    IF k \in 1..Len(s.ps[p].actions) THEN s.ps[p].actions[k].path.relativePath
    ELSE NoData

RECURSIVE EnqueueActions(_, _, _, _)
EnqueueActions(s, plan, v, p) ==
    IF plan = <<>> THEN s
    ELSE LET a == Head(plan)
             data == ActionData(s, p, Len(s.ps[p].actions) - Len(plan) + 1)
             s1 == IF a = "upload"
                   THEN QueueOperation(s, "upload", v, data, UPLOAD_PRIORITY, p)
                   ELSE IF a = "download"
                        THEN QueueOperation(s, "download", v, data, DOWNLOAD_PRIORITY, p)
                        ELSE s
         IN  EnqueueActions(s1, Tail(plan), v, p)

\* ------------------------------------------------------ files and metadata
Paths == {"a.md", "b.md"}

\* file contents, as sequences of UTF-16 code units: "Aa", "BB", "C"
Texts == {<<65, 97>>, <<66, 66>>, <<67>>}

Abs(n) == IF n < 0 THEN -n ELSE n

\* Number.prototype.toString(16), as the sequence of its digits
RECURSIVE ToHex(_)
ToHex(n) == IF n < 16 THEN <<n>> ELSE Append(ToHex(n \div 16), n % 16)

\* the for loop of generateContentHash; on the texts above (hash << 5) - hash
\* + char stays far below 2^31, so that hash & hash changes nothing
RECURSIVE HashLoop(_, _)
HashLoop(hash, content) ==
    IF content = <<>> THEN hash
    ELSE HashLoop(((hash * 32) - hash) + Head(content), Tail(content))

generateContentHash(content) == ToHex(Abs(HashLoop(0, content)))

\* the empty metadata map {}
NoEntries == [x \in {} |-> [version |-> 0, hash |-> <<>>]]

\* metadata[relativePath] = {version, hash, lastSynced}
WithEntry(metadata, path, version, hash) ==
    [x \in (DOMAIN metadata) \cup {path} |->
        IF x = path THEN [version |-> version, hash |-> hash] ELSE metadata[x]]

\* the remote store: the current version of a path is the length of its history
ServerVersion(files, path) == Len(files[path])

\* optimistic concurrency: an upload that is not forced is accepted only at
\* the version that follows the server's current one
ServerAccepts(files, path, version) == version = ServerVersion(files, path) + 1

\* the remote store keeps the uploaded content as the next version of the path
ServerStore(files, path, content) == [files EXCEPT ![path] = Append(@, content)]

\* no UploadFileRequest for a forced upload
NoRequest == [version |-> 0, content |-> <<>>, hash |-> <<>>]

\* an uploadFile or downloadFile call before its first step
NewTask(kind, path, content, version) ==
    [kind |-> kind, path |-> path, pc |-> "start", creating |-> FALSE,
     metadata |-> NoEntries, content |-> content, hash |-> generateContentHash(content),
     version |-> version, before |-> 0, serverVersion |-> 0,
     localContent |-> <<>>, localVersion |-> 0, differs |-> FALSE,
     route |-> "plain", choice |-> "none", merged |-> <<>>, dialogs |-> 0, chosen |-> FALSE,
     wroteLocal |-> FALSE, request |-> NoRequest, shouldUpload |-> FALSE,
     forceFailed |-> FALSE, metadataWriteFailed |-> FALSE]

\* a call that returned or threw keeps only how it ended
Ended(t, how) ==
    [NewTask(t.kind, t.path, <<>>, 0) EXCEPT !.pc = how, !.route = t.route,
                                              !.dialogs = t.dialogs,
                                              !.forceFailed = t.forceFailed,
                                              !.metadataWriteFailed = t.metadataWriteFailed]

\* uploadFile after const metadata = await this.readSyncMetadata(vaultPath)
UploadRequest(t, metadata) ==
    LET known == t.path \in DOMAIN metadata
    IN  [t EXCEPT !.metadata = metadata,
                  !.version = IF known THEN metadata[t.path].version + 1 ELSE 1,
                  !.pc = "upload"]

\* the version the metadata file holds for the path of a call when the call
\* reads it first (0: none), whatever the read returns
Observed(t) ==
    IF t.pc = "read" /\ metadataFile.exists /\ t.path \in DOMAIN metadataFile.entries
    THEN [t EXCEPT !.before = metadataFile.entries[t.path].version]
    ELSE t

\* the continuation of the task after readSyncMetadata returned metadata
AfterRead(t, metadata) ==
    CASE t.pc = "read" /\ t.kind = "upload" -> UploadRequest(t, metadata)
      [] t.pc = "read" /\ t.kind = "download" -> [t EXCEPT !.metadata = metadata, !.pc = "stat"]
      [] t.pc = "reread" -> [t EXCEPT !.metadata = metadata, !.pc = "record"]

\* uploadFile recording the version it read instead of the one it uploaded
UploadEntryStale(t) == [version |-> t.version - 1, hash |-> t.hash]

\* the entry uploadFile records: the version of the response, the hash of the
\* local file it was called with
UploadEntry(t) == [version |-> t.version, hash |-> t.hash]

\* the local-conflict test comparing versions, not content
HasLocalConflictByVersion(fileMetadata, known, localContent) ==
    known /\ fileMetadata.version = 0

\* the local-conflict test of downloadFile
HasLocalConflict(fileMetadata, known, localContent) ==
    LET localHash == generateContentHash(localContent)
        lastSyncedHash == IF known THEN fileMetadata.hash ELSE <<>>
    IN  lastSyncedHash # <<>> /\ localHash # lastSyncedHash

\* --------------------------------------------------------------------- Init
Init ==
    /\ operationQueue = <<>>
    /\ activeOperations = {}
    /\ isProcessingQueue = FALSE
    /\ progressCallbacks = {}
    /\ syncProgress = [v \in {} |-> DefaultProgress]
    /\ operations = <<>>
    /\ masterKey = FALSE
    /\ passes = <<>>
    /\ phase = <<>>
    /\ history = <<>>
    /\ ioFailures = 0
    /\ microtasks = <<>>
    /\ metadataFile = [exists |-> FALSE, entries |-> NoEntries]
    /\ localFiles = [x \in {} |-> <<>>]
    /\ serverFiles = [x \in Paths |-> <<>>]
    /\ tasks = <<>>
    /\ environment = [edits |-> 0, uploads |-> 0]
    /\ conflictData = 0
    /\ timers = 0

\* ------------------------------------------------------------------ actions
Idle == microtasks = <<>>

\* performBackgroundSync up to await this.checkSync(...)
PerformBackgroundSync(v) ==
    /\ Idle
    /\ operationQueue' = FilterQueue(operationQueue, operations, v)
    /\ progressCallbacks' = progressCallbacks \cup {v}
    /\ passes' = Append(passes, [vaultId |-> v, pc |-> "checkSync", remaining |-> 0,
                                 actions |-> <<>>, request |-> {},
                                 checkedAt |-> environment, notified |-> FALSE])
    /\ UNCHANGED <<activeOperations, isProcessingQueue, syncProgress, operations,
                   masterKey, phase, history, microtasks, ioFailures>>
    /\ UNCHANGED fileVars
    /\ UNCHANGED modalVars
    /\ UNCHANGED timerVars

\* performBackgroundSync from the progress reset to await Promise.allSettled
ExecutePlan(s, p, plan) ==
    LET v == s.ps[p].vaultId
        fresh == [total |-> Len(plan), completed |-> 0, failed |-> 0, inProgress |-> 0,
                  status |-> IF Len(plan) > 0 THEN "syncing" ELSE "completed"]
        s0 == [s EXCEPT
                 !.prog = [x \in (DOMAIN s.prog) \cup {v} |->
                              IF x = v THEN fresh ELSE s.prog[x]]]
    IN  IF Len(plan) = 0
        THEN [s0 EXCEPT !.ps[p].pc = "returned"]
        ELSE LET s1 == EnqueueActions(s0, plan, v, p)
                 n == Enqueued(plan)
                 s2 == [s1 EXCEPT !.ps[p].pc = "allSettled",
                                  !.ps[p].remaining = n]
             IN  IF n = 0
                 THEN [s2 EXCEPT !.mq = Append(@, Job("performBackgroundSync", p))]
                 ELSE s2

\* checkSync and getLocalFiles returned: progress is reset, the actions are
\* enqueued, and the call suspends on Promise.allSettled
CheckSyncReturns(p, plan) ==
    /\ Idle
    /\ passes[p].pc = "checkSync"
    /\ Install(ExecutePlan(Sched, p, plan))
    /\ UNCHANGED <<progressCallbacks, masterKey, ioFailures>>
    /\ UNCHANGED fileVars
    /\ UNCHANGED modalVars

\* ------------------------------------------------------------- the planner
\* the path of a note: node.path inside the vault folder, or the
\* vault-relative path the server uses
AbsolutePath(relativePath) == [absolute |-> TRUE, relativePath |-> relativePath]
VaultRelativePath(relativePath) == [absolute |-> FALSE, relativePath |-> relativePath]

\* the LocalFileInfo objects getLocalFiles returns for the notes it could read
LocalFileInfos(notes) ==
    {[path |-> AbsolutePath(x), relativePath |-> x] : x \in notes}

\* a version default that takes a note without entry for version 0
LocalVersionDefaultZero(metadata, relativePath) ==
    IF relativePath \in DOMAIN metadata THEN metadata[relativePath].version ELSE 0

\* fileMetadata?.version || 1
LocalVersion(metadata, relativePath) ==
    IF relativePath \in DOMAIN metadata /\ metadata[relativePath].version # 0
    THEN metadata[relativePath].version
    ELSE 1

\* getLocalFiles: one LocalFileInfo for every note of the vault, with the
\* fingerprint of its content and the version the metadata records
GetLocalFiles(metadata, files) ==
    {[path |-> AbsolutePath(x), relativePath |-> x, content |-> files[x],
      contentHash |-> generateContentHash(files[x]),
      version |-> LocalVersion(metadata, x)] : x \in DOMAIN files}

\* the FileSyncInfo list checkSync sends
SyncRequest(files) ==
    {[relativePath |-> f.relativePath, version |-> f.version,
      contentHash |-> f.contentHash] : f \in files}

\* what the remote store may answer for one path; fileId 0: no fileId
ServerActions ==
    [relativePath : Paths, action : {"none", "upload", "download", "conflict"},
     serverVersion : {3}, fileId : {0, 1}]

RECURSIVE SeqsUpTo(_, _)
SeqsUpTo(S, n) ==
    IF n = 0 THEN {<<>>}
    ELSE LET shorter == SeqsUpTo(S, n - 1)
         IN  shorter \cup {Append(q, x) : q \in shorter, x \in S}

\* response.actions.map(...) of checkSync
CheckSyncActions(files, response) ==
    [i \in 1..Len(response) |->
        LET action == response[i]
            found == {f \in files : f.relativePath = action.relativePath}
        IN  IF action.action = "conflict" /\ found # {}
            THEN [path |-> (CHOOSE f \in found : TRUE).path,
                  action |-> "upload",
                  serverVersion |-> action.serverVersion,
                  fileId |-> action.fileId]
            ELSE [path |-> IF found # {} THEN (CHOOSE f \in found : TRUE).path
                           ELSE VaultRelativePath(action.relativePath),
                  action |-> action.action,
                  serverVersion |-> action.serverVersion,
                  fileId |-> action.fileId]]

\* what the switch of the enqueue loop does with each action
PlanOf(actions, files) ==
    [i \in 1..Len(actions) |->
        LET action == actions[i]
            localFile == {f \in files : f.path = action.path}
        IN  IF action.action = "upload" /\ localFile # {} THEN "upload"
            ELSE IF action.action = "download" /\ action.fileId # 0 THEN "download"
            ELSE "none"]

\* the remote store answered checkSync with response while the notes files
\* were readable: checkSync translates the response, then as CheckSyncReturns
CheckSyncResponds(p, files, response) ==
    /\ Idle
    /\ passes[p].pc = "checkSync"
    /\ LET actions == CheckSyncActions(files, response)
       IN  Install(ExecutePlan([Sched EXCEPT !.ps[p].actions = actions], p,
                               PlanOf(actions, files)))
    /\ UNCHANGED <<progressCallbacks, masterKey, ioFailures>>
    /\ UNCHANGED fileVars
    /\ UNCHANGED modalVars

\* a pass that enqueues an upload although its plan fetch failed
CheckSyncFailsPartial(p) ==
    /\ Idle
    /\ passes[p].pc = "checkSync"
    /\ Install([QueueOperation(Sched, "upload", passes[p].vaultId, NoData,
                                UPLOAD_PRIORITY, p)
                    EXCEPT !.ps[p].pc = "rejected"])
    /\ UNCHANGED <<progressCallbacks, masterKey, ioFailures>>
    /\ UNCHANGED fileVars
    /\ UNCHANGED modalVars

\* checkSync threw: performBackgroundSync rejects
CheckSyncFails(p) ==
    /\ Idle
    /\ passes[p].pc = "checkSync"
    /\ passes' = [passes EXCEPT ![p].pc = "rejected"]
    /\ UNCHANGED <<operationQueue, activeOperations, isProcessingQueue, progressCallbacks,
                   syncProgress, operations, masterKey, phase, history, microtasks, ioFailures>>
    /\ UNCHANGED fileVars
    /\ UNCHANGED modalVars
    /\ UNCHANGED timerVars

\* how many conflicts were detected so far
RECURSIVE SumOver(_, _)
SumOver(h, f) == IF h = <<>> THEN 0 ELSE Head(h)[f] + SumOver(Tail(h), f)

Conflicts == SumOver(history, "conflicts")

\* uploadFile / downloadFile returned normally
AttemptSucceeds(id) ==
    /\ Idle
    /\ phase[id] \in {"io", "applying"}
    /\ Install(Succeed(Sched, id))
    /\ UNCHANGED <<progressCallbacks, masterKey, ioFailures>>
    /\ UNCHANGED fileVars
    /\ UNCHANGED modalVars

\* uploadFile / downloadFile threw after some I/O (transport error, server
\* refusal, missing key on download, file or metadata write error, failed
\* forced upload)
AttemptFails(id) ==
    /\ Idle
    /\ phase[id] \in {"io", "applying"}
    /\ Install(Fail(Sched, id))
    /\ ioFailures' = ioFailures + 1
    /\ UNCHANGED <<progressCallbacks, masterKey>>
    /\ UNCHANGED fileVars
    /\ UNCHANGED modalVars

\* the server reported a version conflict (upload) or the local file differs
\* from its recorded hash (download): the conflict resolver starts fetching
\* the server version
ConflictDetected(id) ==
    /\ Idle
    /\ phase[id] = "io"
    /\ phase' = [phase EXCEPT ![id] = "resolving"]
    /\ history' = [history EXCEPT ![id].conflicts = @ + 1]
    /\ UNCHANGED <<operationQueue, activeOperations, isProcessingQueue, progressCallbacks,
                   syncProgress, operations, masterKey, passes, microtasks, ioFailures>>
    /\ UNCHANGED fileVars
    /\ UNCHANGED modalVars
    /\ UNCHANGED timerVars

\* downloading or decrypting the server version failed: handleUploadConflict /
\* handleDownloadConflict throws
ResolutionError(id) ==
    /\ Idle
    /\ phase[id] = "resolving"
    /\ Install(Fail([Sched EXCEPT !.hist[id].conflictFailures = @ + 1], id))
    /\ UNCHANGED <<progressCallbacks, masterKey, ioFailures>>
    /\ UNCHANGED fileVars
    /\ UNCHANGED modalVars

\* presentConflictDialog dispatches showConflictDialog: the modal's listener
\* puts the event's detail in conflictData, whatever it held
PresentConflictDialog(id) ==
    /\ Idle
    /\ phase[id] = "resolving"
    /\ conflictData' = id
    /\ phase' = [phase EXCEPT ![id] = "dialog"]
    /\ history' = [history EXCEPT ![id].dialogs = @ + 1]
    /\ UNCHANGED <<operationQueue, activeOperations, isProcessingQueue, progressCallbacks,
                   syncProgress, operations, masterKey, passes, microtasks, ioFailures>>
    /\ UNCHANGED fileVars
    /\ UNCHANGED timerVars

\* the user picked keep-local, use-server or merge
DialogResolved(id) ==
    /\ Idle
    /\ phase[id] = "dialog"
    /\ conflictData = id
    /\ conflictData' = 0
    /\ phase' = [phase EXCEPT ![id] = "applying"]
    /\ UNCHANGED <<operationQueue, activeOperations, isProcessingQueue, progressCallbacks,
                   syncProgress, operations, masterKey, passes, history, microtasks, ioFailures>>
    /\ UNCHANGED fileVars
    /\ UNCHANGED timerVars

\* the user closed the dialog: handleClose rejects the promise
DialogCancelled(id) ==
    /\ Idle
    /\ phase[id] = "dialog"
    /\ conflictData = id
    /\ conflictData' = 0
    /\ Install(Fail([Sched EXCEPT !.hist[id].conflictFailures = @ + 1], id))
    /\ UNCHANGED <<progressCallbacks, masterKey, ioFailures>>
    /\ UNCHANGED fileVars

SetMasterKey ==
    /\ Idle
    /\ ~masterKey
    /\ masterKey' = TRUE
    /\ UNCHANGED <<operationQueue, activeOperations, isProcessingQueue, progressCallbacks,
                   syncProgress, operations, passes, phase, history, microtasks, ioFailures>>
    /\ UNCHANGED fileVars
    /\ UNCHANGED modalVars
    /\ UNCHANGED timerVars

ClearMasterKey ==
    /\ Idle
    /\ masterKey
    /\ masterKey' = FALSE
    /\ UNCHANGED <<operationQueue, activeOperations, isProcessingQueue, progressCallbacks,
                   syncProgress, operations, passes, phase, history, microtasks, ioFailures>>
    /\ UNCHANGED fileVars
    /\ UNCHANGED modalVars
    /\ UNCHANGED timerVars

ClearSyncProgress(v) ==
    /\ Idle
    /\ syncProgress' = [x \in (DOMAIN syncProgress) \ {v} |-> syncProgress[x]]
    /\ progressCallbacks' = progressCallbacks \ {v}
    /\ operationQueue' = FilterQueue(operationQueue, operations, v)
    /\ UNCHANGED <<activeOperations, isProcessingQueue, operations, masterKey, passes,
                   phase, history, microtasks, ioFailures>>
    /\ UNCHANGED fileVars
    /\ UNCHANGED modalVars
    /\ UNCHANGED timerVars

\* the event loop runs the oldest pending promise reaction
RunMicrotask ==
    /\ microtasks # <<>>
    /\ LET j == Head(microtasks)
           s == [Sched EXCEPT !.mq = Tail(microtasks)]
       IN  \E after \in {
             CASE j.job = "processQueueFinally" -> [s EXCEPT !.busy = FALSE]
               [] j.job = "processOperation" -> Fail(s, j.id)
               [] j.job = "finally" -> Finally(s, j.id)
               [] j.job = "allSettledElement" -> AllSettledElement(s, j.id)
               [] j.job = "performBackgroundSync" -> FinishPass(s, j.id)} : Install(after)
    /\ UNCHANGED <<progressCallbacks, masterKey, ioFailures>>
    /\ UNCHANGED fileVars
    /\ UNCHANGED modalVars

\* ------------------------------------------- uploadFile and downloadFile
\* uploadFile(vaultId, vaultPath, localFile) is called with a file getLocalFiles
\* read: without a master key it throws at once
StartUpload(path) ==
    /\ path \in DOMAIN localFiles
    /\ LET t == NewTask("upload", path, localFiles[path], 0)
       IN  tasks' = Append(tasks, IF masterKey THEN [t EXCEPT !.pc = "read"]
                                  ELSE Ended(t, "failed"))
    /\ UNCHANGED <<metadataFile, localFiles, serverFiles, environment, masterKey, ioFailures>>
    /\ UNCHANGED schedVars
    /\ UNCHANGED modalVars
    /\ UNCHANGED timerVars

\* downloadFile(vaultId, vaultPath, fileId, relativePath, version) is called
\* for a version of a file the remote store holds
StartDownload(path, version) ==
    /\ version \in 1..ServerVersion(serverFiles, path)
    /\ tasks' = Append(tasks, [NewTask("download", path, <<>>, version) EXCEPT !.pc = "read"])
    /\ UNCHANGED <<metadataFile, localFiles, serverFiles, environment, masterKey, ioFailures>>
    /\ UNCHANGED schedVars
    /\ UNCHANGED modalVars
    /\ UNCHANGED timerVars

\* readSyncMetadata: the file is read and parsed, or found absent
ReadMetadata(i) ==
    /\ tasks[i].pc \in {"read", "reread"}
    /\ ~tasks[i].creating
    /\ tasks' = [tasks EXCEPT ![i] = IF metadataFile.exists
                                     THEN AfterRead(Observed(@), metadataFile.entries)
                                     ELSE [@ EXCEPT !.creating = TRUE]]
    /\ UNCHANGED <<metadataFile, localFiles, serverFiles, environment, masterKey, ioFailures>>
    /\ UNCHANGED schedVars
    /\ UNCHANGED modalVars
    /\ UNCHANGED timerVars

\* readSyncMetadata: any other read or parse error returns {}
ReadMetadataFails(i) ==
    /\ tasks[i].pc \in {"read", "reread"}
    /\ ~tasks[i].creating
    /\ metadataFile.exists
    /\ tasks' = [tasks EXCEPT ![i] = AfterRead(Observed(@), NoEntries)]
    /\ ioFailures' = ioFailures + 1
    /\ UNCHANGED <<metadataFile, localFiles, serverFiles, environment, masterKey>>
    /\ UNCHANGED schedVars
    /\ UNCHANGED modalVars
    /\ UNCHANGED timerVars

\* readSyncMetadata after ENOENT: writes {} and returns {}
CreateMetadata(i) ==
    /\ tasks[i].creating
    /\ metadataFile' = [exists |-> TRUE, entries |-> NoEntries]
    /\ tasks' = [tasks EXCEPT ![i] = AfterRead([@ EXCEPT !.creating = FALSE], NoEntries)]
    /\ UNCHANGED <<localFiles, serverFiles, environment, masterKey, ioFailures>>
    /\ UNCHANGED schedVars
    /\ UNCHANGED modalVars
    /\ UNCHANGED timerVars

\* readSyncMetadata letting the failure of its write of {} escape
CreateMetadataFailsThrows(i) ==
    /\ tasks[i].creating
    /\ tasks' = [tasks EXCEPT ![i] = Ended(@, "failed")]
    /\ ioFailures' = ioFailures + 1
    /\ UNCHANGED <<metadataFile, localFiles, serverFiles, environment, masterKey>>
    /\ UNCHANGED schedVars
    /\ UNCHANGED modalVars
    /\ UNCHANGED timerVars

\* readSyncMetadata after ENOENT: the write of {} fails, {} is returned
CreateMetadataFails(i) ==
    /\ tasks[i].creating
    /\ tasks' = [tasks EXCEPT ![i] = AfterRead([@ EXCEPT !.creating = FALSE], NoEntries)]
    /\ ioFailures' = ioFailures + 1
    /\ UNCHANGED <<metadataFile, localFiles, serverFiles, environment, masterKey>>
    /\ UNCHANGED schedVars
    /\ UNCHANGED modalVars
    /\ UNCHANGED timerVars

\* this.sync.uploadFile returned success
UploadAccepted(i) ==
    /\ tasks[i].pc = "upload"
    /\ ServerAccepts(serverFiles, tasks[i].path, tasks[i].version)
    /\ serverFiles' = ServerStore(serverFiles, tasks[i].path, tasks[i].content)
    /\ tasks' = [tasks EXCEPT ![i].pc = "reread"]
    /\ UNCHANGED <<metadataFile, localFiles, environment, masterKey, ioFailures>>
    /\ UNCHANGED schedVars
    /\ UNCHANGED modalVars
    /\ UNCHANGED timerVars

\* this.sync.uploadFile returned a conflict: handleUploadConflict starts
UploadConflict(i) ==
    /\ tasks[i].pc = "upload"
    /\ ~ServerAccepts(serverFiles, tasks[i].path, tasks[i].version)
    /\ tasks' = [tasks EXCEPT ![i].pc = "fetch",
                              ![i].route = "conflict",
                              ![i].serverVersion = ServerVersion(serverFiles, tasks[i].path)]
    /\ UNCHANGED <<metadataFile, localFiles, serverFiles, environment, masterKey, ioFailures>>
    /\ UNCHANGED schedVars
    /\ UNCHANGED modalVars
    /\ UNCHANGED timerVars

\* downloadFile reads the local file and compares its hash with the recorded one
ReadLocal(i) ==
    /\ tasks[i].pc = "stat"
    /\ LET t == tasks[i]
           known == t.path \in DOMAIN t.metadata
           fileMetadata == IF known THEN t.metadata[t.path] ELSE [version |-> 0, hash |-> <<>>]
       IN  IF t.path \in DOMAIN localFiles
           THEN LET localContent == localFiles[t.path]
                    conflict == HasLocalConflict(fileMetadata, known, localContent)
                IN  tasks' = [tasks EXCEPT
                        ![i].localContent = localContent,
                        ![i].localVersion = IF known /\ fileMetadata.version # 0
                                            THEN fileMetadata.version ELSE 1,
                        ![i].differs = known /\ generateContentHash(localContent) # fileMetadata.hash,
                        ![i].route = IF conflict THEN "conflict" ELSE "plain",
                        ![i].pc = IF conflict THEN "fetch" ELSE "download"]
           ELSE tasks' = [tasks EXCEPT ![i].pc = "download"]
    /\ UNCHANGED <<metadataFile, localFiles, serverFiles, environment, masterKey, ioFailures>>
    /\ UNCHANGED schedVars
    /\ UNCHANGED modalVars
    /\ UNCHANGED timerVars

\* this.sync.downloadFile returned: without a master key downloadFile throws
DownloadReturns(i) ==
    /\ tasks[i].pc = "download"
    /\ LET t == tasks[i]
           content == serverFiles[t.path][t.version]
       IN  tasks' = [tasks EXCEPT ![i] =
                        IF masterKey
                        THEN [t EXCEPT !.content = content,
                                       !.hash = generateContentHash(content),
                                       !.pc = "writeLocal"]
                        ELSE Ended(t, "failed")]
    /\ UNCHANGED <<metadataFile, localFiles, serverFiles, environment, masterKey, ioFailures>>
    /\ UNCHANGED schedVars
    /\ UNCHANGED modalVars
    /\ UNCHANGED timerVars

\* the conflict resolver fetched and decrypted the server version and
\* dispatched showConflictDialog: the modal's listener puts the event's detail
\* in conflictData, whatever it held
PresentDialog(i) ==
    /\ tasks[i].pc = "fetch"
    /\ conflictData' = i
    /\ tasks' = [tasks EXCEPT ![i].pc = "dialog", ![i].dialogs = @ + 1]
    /\ UNCHANGED <<metadataFile, localFiles, serverFiles, environment, masterKey, ioFailures>>
    /\ UNCHANGED schedVars
    /\ UNCHANGED timerVars

\* the version the conflict resolver showed as the server's
ServerContent(t) ==
    serverFiles[t.path][IF t.kind = "upload" THEN t.serverVersion ELSE t.version]

\* String.prototype.trim on a text of code units: leading and trailing
\* spaces removed
RECURSIVE Trim(_)
Trim(text) ==
    IF text = <<>> THEN <<>>
    ELSE IF Head(text) = 32 THEN Trim(Tail(text))
    ELSE IF text[Len(text)] = 32 THEN Trim(SubSeq(text, 1, Len(text) - 1))
    ELSE text

\* the texts the merge editor of the dialog can hold: any text, none, blanks
EditorTexts == Texts \cup {<<>>, <<32>>}

\* the Resolve button can be pressed: it is disabled while merge is selected
\* and the merge editor holds nothing but blanks
ResolveEnabled(choice, mergedContent) ==
    ~(choice = "merge" /\ Trim(mergedContent) = <<>>)

\* handleResolve: the dialog resolves with the selected resolution and, for
\* merge, the text of the merge editor
DialogResolves(i, choice, mergedContent) ==
    /\ tasks[i].pc = "dialog"
    /\ conflictData = i
    /\ ResolveEnabled(choice, mergedContent)
    /\ conflictData' = 0
    /\ tasks' = [tasks EXCEPT ![i].choice = choice,
                              ![i].chosen = TRUE,
                              ![i].merged = IF choice = "merge" THEN mergedContent ELSE <<>>,
                              ![i].pc = "resolved"]
    /\ UNCHANGED <<metadataFile, localFiles, serverFiles, environment, masterKey, ioFailures>>
    /\ UNCHANGED schedVars
    /\ UNCHANGED timerVars

\* executeResolution passing uploadRequest on as it came: the forced upload
\* carries the version the server has just refused
ExecuteUploadResolutionSameVersion(t) ==
    CASE t.choice = "keep-local" ->
             [t EXCEPT !.request = [version |-> t.version,
                                    content |-> t.content,
                                    hash |-> t.hash],
                       !.pc = "force"]
      [] t.choice = "use-server" ->
             [t EXCEPT !.version = t.serverVersion, !.pc = "reread"]
      [] t.choice = "merge" ->
             IF t.merged = <<>> THEN Ended(t, "failed")
             ELSE [t EXCEPT !.request = [version |-> t.version,
                                         content |-> t.merged,
                                         hash |-> generateContentHash(t.merged)],
                            !.pc = "force"]

\* executeResolution: the outcome of handleUploadConflict for the choice, up
\* to the forced upload it issues
ExecuteUploadResolution(t) ==
    CASE t.choice = "keep-local" ->
             [t EXCEPT !.request = [version |-> t.serverVersion + 1,
                                    content |-> t.content,
                                    hash |-> t.hash],
                       !.pc = "force"]
      [] t.choice = "use-server" ->
             [t EXCEPT !.version = t.serverVersion, !.pc = "reread"]
      [] t.choice = "merge" ->
             IF t.merged = <<>> THEN Ended(t, "failed")
             ELSE [t EXCEPT !.request = [version |-> t.serverVersion + 1,
                                         content |-> t.merged,
                                         hash |-> generateContentHash(t.merged)],
                            !.pc = "force"]

\* executeDownloadResolution that asks for an upload after use-server as well
ExecuteDownloadResolutionAlwaysUpload(t) ==
    CASE t.choice = "keep-local" ->
             [t EXCEPT !.content = t.localContent,
                       !.hash = generateContentHash(t.localContent),
                       !.shouldUpload = TRUE,
                       !.request = [version |-> 1,
                                    content |-> t.localContent,
                                    hash |-> generateContentHash(t.localContent)],
                       !.pc = "writeLocal"]
      [] t.choice = "use-server" ->
             [t EXCEPT !.content = ServerContent(t),
                       !.hash = generateContentHash(ServerContent(t)),
                       !.shouldUpload = TRUE,
                       !.request = [version |-> 1,
                                    content |-> ServerContent(t),
                                    hash |-> generateContentHash(ServerContent(t))],
                       !.pc = "writeLocal"]
      [] t.choice = "merge" ->
             IF t.merged = <<>> THEN Ended(t, "failed")
             ELSE [t EXCEPT !.content = t.merged,
                            !.hash = generateContentHash(t.merged),
                            !.shouldUpload = TRUE,
                            !.request = [version |-> 1,
                                         content |-> t.merged,
                                         hash |-> generateContentHash(t.merged)],
                            !.pc = "writeLocal"]

\* executeDownloadResolution: the winning content, shouldUpload and the
\* upload request (version 1, updated by the caller)
ExecuteDownloadResolution(t) ==
    CASE t.choice = "keep-local" ->
             [t EXCEPT !.content = t.localContent,
                       !.hash = generateContentHash(t.localContent),
                       !.shouldUpload = TRUE,
                       !.request = [version |-> 1,
                                    content |-> t.localContent,
                                    hash |-> generateContentHash(t.localContent)],
                       !.pc = "writeLocal"]
      [] t.choice = "use-server" ->
             [t EXCEPT !.content = ServerContent(t),
                       !.hash = generateContentHash(ServerContent(t)),
                       !.shouldUpload = FALSE,
                       !.pc = "writeLocal"]
      [] t.choice = "merge" ->
             IF t.merged = <<>> THEN Ended(t, "failed")
             ELSE [t EXCEPT !.content = t.merged,
                            !.hash = generateContentHash(t.merged),
                            !.shouldUpload = TRUE,
                            !.request = [version |-> 1,
                                         content |-> t.merged,
                                         hash |-> generateContentHash(t.merged)],
                            !.pc = "writeLocal"]

\* the conflict handler resumes with the choice and executes it
ExecuteResolution(i) ==
    /\ tasks[i].pc = "resolved"
    /\ tasks' = [tasks EXCEPT ![i] = IF @.kind = "upload" THEN ExecuteUploadResolution(@)
                                     ELSE ExecuteDownloadResolution(@)]
    /\ UNCHANGED <<metadataFile, localFiles, serverFiles, environment, masterKey, ioFailures>>
    /\ UNCHANGED schedVars
    /\ UNCHANGED modalVars
    /\ UNCHANGED timerVars

\* handleClose: the dialog rejects, the conflict handler and the call throw
DialogCancels(i) ==
    /\ tasks[i].pc = "dialog"
    /\ conflictData = i
    /\ conflictData' = 0
    /\ tasks' = [tasks EXCEPT ![i] = Ended(@, "failed")]
    /\ UNCHANGED <<metadataFile, localFiles, serverFiles, environment, masterKey, ioFailures>>
    /\ UNCHANGED schedVars
    /\ UNCHANGED timerVars

\* forceUploadFile returned success: the store keeps the content, the response
\* carries the version of the request
ForceAccepted(i) ==
    /\ tasks[i].pc = "force"
    /\ serverFiles' = ServerStore(serverFiles, tasks[i].path, tasks[i].request.content)
    /\ tasks' = [tasks EXCEPT ![i].version = tasks[i].request.version,
                              ![i].pc = IF tasks[i].kind = "upload" THEN "reread"
                                        ELSE "recordForced"]
    /\ UNCHANGED <<metadataFile, localFiles, environment, masterKey, ioFailures>>
    /\ UNCHANGED schedVars
    /\ UNCHANGED modalVars
    /\ UNCHANGED timerVars

\* downloadFile: await this.fileSystem.writeFile(fullPath, content)
WriteLocal(i) ==
    /\ tasks[i].pc = "writeLocal"
    /\ localFiles' = [x \in (DOMAIN localFiles) \cup {tasks[i].path} |->
                         IF x = tasks[i].path THEN tasks[i].content ELSE localFiles[x]]
    /\ tasks' = [tasks EXCEPT ![i].wroteLocal = TRUE, ![i].pc = "record"]
    /\ UNCHANGED <<metadataFile, serverFiles, environment, masterKey, ioFailures>>
    /\ UNCHANGED schedVars
    /\ UNCHANGED modalVars
    /\ UNCHANGED timerVars

\* the map the call writes: uploadFile adds its entry to the map it has just
\* read again, downloadFile to the map it read when it started
UpdatedMetadata(t) ==
    IF t.kind = "upload"
    THEN [x \in (DOMAIN t.metadata) \cup {t.path} |->
             IF x = t.path THEN UploadEntry(t) ELSE t.metadata[x]]
    ELSE WithEntry(t.metadata, t.path, t.version, t.hash)

\* await this.writeSyncMetadata(vaultPath, ...)
WriteMetadata(i) ==
    /\ tasks[i].pc \in {"record", "recordForced"}
    /\ LET t == tasks[i]
           updated == UpdatedMetadata(t)
           shouldUpload == t.kind = "download" /\ t.route = "conflict" /\ t.pc = "record"
                           /\ t.shouldUpload /\ t.request # NoRequest
       IN  /\ metadataFile' = [exists |-> TRUE, entries |-> updated]
           /\ tasks' = [tasks EXCEPT ![i] =
                           IF shouldUpload
                           THEN [t EXCEPT !.metadata = updated,
                                          !.request.version = t.version + 1,
                                          !.pc = "force"]
                           ELSE Ended(t, "done")]
    /\ UNCHANGED <<localFiles, serverFiles, environment, masterKey, ioFailures>>
    /\ UNCHANGED schedVars
    /\ UNCHANGED modalVars
    /\ UNCHANGED timerVars

\* an awaited transport or file-system call rejects, or an upload response
\* says success: false: the call throws, except that downloadFile catches
\* whatever its forced upload and the metadata write after it throw
StepFails(i) ==
    /\ tasks[i].pc \in {"upload", "download", "fetch", "force", "writeLocal", "record",
                        "recordForced"}
    /\ LET t == [tasks[i] EXCEPT
                    !.forceFailed = (tasks[i].pc = "force"),
                    !.metadataWriteFailed = (tasks[i].pc \in {"record", "recordForced"})]
       IN  tasks' = [tasks EXCEPT ![i] =
                        IF t.kind = "download" /\ t.pc \in {"force", "recordForced"}
                        THEN Ended(t, "done")
                        ELSE Ended(t, "failed")]
    /\ ioFailures' = ioFailures + 1
    /\ UNCHANGED <<metadataFile, localFiles, serverFiles, environment, masterKey>>
    /\ UNCHANGED schedVars
    /\ UNCHANGED modalVars
    /\ UNCHANGED timerVars

\* the user creates or edits a note
LocalEdit(path, content) ==
    /\ path \in DOMAIN localFiles => localFiles[path] # content
    /\ localFiles' = [x \in (DOMAIN localFiles) \cup {path} |->
                         IF x = path THEN content ELSE localFiles[x]]
    /\ environment' = [environment EXCEPT !.edits = @ + 1]
    /\ UNCHANGED <<metadataFile, serverFiles, tasks, masterKey, ioFailures>>
    /\ UNCHANGED schedVars
    /\ UNCHANGED modalVars
    /\ UNCHANGED timerVars

\* another device uploads a version of a note
RemoteUpload(path, content) ==
    /\ serverFiles' = ServerStore(serverFiles, path, content)
    /\ environment' = [environment EXCEPT !.uploads = @ + 1]
    /\ UNCHANGED <<metadataFile, localFiles, tasks, masterKey, ioFailures>>
    /\ UNCHANGED schedVars
    /\ UNCHANGED modalVars
    /\ UNCHANGED timerVars

\* the remote store holds the reported version of the path, with the
\* reported content
ServerMatches(files, info) ==
    /\ info.version = ServerVersion(files, info.relativePath)
    /\ info.version >= 1
    /\ info.contentHash = generateContentHash(files[info.relativePath][info.version])

\* the actions the remote store may answer checkSync with for a path: none
\* exactly when the reported version and fingerprint match what it holds, a
\* download for a path it holds and the client did not report ("absent": no
\* action for the path)
RemoteAnswers(files, request, path) ==
    LET reported == {info \in request : info.relativePath = path}
    IN  IF reported = {}
        THEN IF ServerVersion(files, path) = 0 THEN {"absent"} ELSE {"download"}
        ELSE IF \E info \in reported : ServerMatches(files, info) THEN {"none"}
        ELSE IF ServerVersion(files, path) = 0 THEN {"upload"}
        ELSE {"upload", "download", "conflict"}

PathOrder == <<"a.md", "b.md">>

\* response.actions of the remote store for the answers chosen
ResponseOf(files, answer) ==
    LET all == [k \in 1..Len(PathOrder) |->
                   [relativePath |-> PathOrder[k],
                    action |-> answer[PathOrder[k]],
                    serverVersion |-> ServerVersion(files, PathOrder[k]),
                    fileId |-> IF ServerVersion(files, PathOrder[k]) = 0 THEN 0 ELSE 1]]
    IN  SelectSeq(all, LAMBDA a : a.action # "absent")

\* the calls the operations of a pass make: uploadFile with the LocalFileInfo
\* of the note, downloadFile with the path and the server version of the action
RECURSIVE TasksOf(_, _)
TasksOf(actions, files) ==
    IF actions = <<>> THEN <<>>
    ELSE LET action == Head(actions)
             localFile == {f \in files : f.path = action.path}
             rest == TasksOf(Tail(actions), files)
         IN  IF action.action = "upload" /\ localFile # {}
             THEN LET f == CHOOSE f \in localFile : TRUE
                      t == NewTask("upload", f.relativePath, f.content, 0)
                  IN  <<IF masterKey THEN [t EXCEPT !.pc = "read"]
                        ELSE Ended(t, "failed")>> \o rest
             ELSE IF action.action = "download" /\ action.fileId # 0
             THEN <<[NewTask("download", action.path.relativePath, <<>>,
                             action.serverVersion) EXCEPT !.pc = "read"]>> \o rest
             ELSE rest

\* no uploadFile or downloadFile call is in progress
AllEnded == \A i \in 1..Len(tasks) : tasks[i].pc \in {"done", "failed"}

\* performBackgroundSync on the files: getLocalFiles reads the metadata (and
\* creates the file when it is absent) and the notes, the remote store answers
\* checkSync, the answer is translated, and one call is made for every
\* operation the enqueue loop creates
SyncPass(v) ==
    /\ AllEnded
    /\ LET metadata == IF metadataFile.exists THEN metadataFile.entries ELSE NoEntries
           files == GetLocalFiles(metadata, localFiles)
           request == SyncRequest(files)
       IN  /\ metadataFile' = [exists |-> TRUE, entries |-> metadata]
           /\ \E answer \in [Paths -> {"absent", "none", "upload", "download", "conflict"}] :
                  /\ \A x \in Paths : answer[x] \in RemoteAnswers(serverFiles, request, x)
                  /\ LET actions == CheckSyncActions(files, ResponseOf(serverFiles, answer))
                     IN  /\ tasks' = TasksOf(actions, files)
                         /\ passes' = Append(passes,
                                [vaultId |-> v, pc |-> "syncing", remaining |-> 0,
                                 actions |-> actions, request |-> request,
                                 checkedAt |-> environment, notified |-> FALSE])
    /\ UNCHANGED <<operationQueue, activeOperations, isProcessingQueue, progressCallbacks,
                   syncProgress, operations, phase, history, microtasks>>
    /\ UNCHANGED <<localFiles, serverFiles, environment, masterKey, ioFailures>>
    /\ UNCHANGED modalVars
    /\ UNCHANGED timerVars

\* ------------------------------------------- the timer-driven scheduler
\* The variant of SyncService whose processQueue is re-armed with setTimeout.
\* It works on the same fields; processQueue has no await, so it runs from
\* its first line to its last in one step and isProcessingQueue is false
\* whenever a handler starts.

\* one iteration of the while loop of processQueue: the operation is taken
\* off the sorted queue, its id added to activeOperations, and
\* processOperation runs up to the await of uploadFile / downloadFile
TimerStartNext(s) ==
    LET sorted == SortByPriority(s.q, s.ops)
        id == Head(sorted)
        act == s.act \cup {id}
        v == s.ops[id].vaultId
        s1 == [s EXCEPT !.q = Tail(sorted),
                        !.act = act,
                        !.prog = UpdateProgress(@, v, [inProgress |-> Cardinality(act)]),
                        !.ph[id] = "io",
                        !.hist[id].attempts = @ + 1]
    IN  s1

RECURSIVE TimerLoop(_)
TimerLoop(s) ==
    IF Len(s.q) > 0 /\ Cardinality(s.act) < MAX_CONCURRENT_OPERATIONS
    THEN The({TimerLoop(started) : started \in {TimerStartNext(s)}})
    ELSE s

\* processQueue of the timer-driven variant: the loop, then a timer of 100 ms
\* when operations are left in the queue
TimerProcessQueue(s) ==
    IF s.busy THEN s
    ELSE LET s1 == TimerLoop(s)
         IN  [s1 EXCEPT !.tm = IF Len(s1.q) > 0 THEN @ + 1 ELSE @]

\* queueOperation of the timer-driven variant: push, processQueue
TimerQueueOperation(s, type, v, priority, p) ==
    LET id == Len(s.ops) + 1
        operation == [type |-> type, priority |-> priority, vaultId |-> v, data |-> NoData,
                      retries |-> 0, maxRetries |-> MAX_RETRIES, pass |-> p]
        s1 == [s EXCEPT !.ops = Append(@, operation),
                        !.ph = Append(@, "none"),
                        !.hist = Append(@, [NewHistory EXCEPT
                                                !.enqueuedAt = Pushes(s.ops) + 1]),
                        !.q = Append(@, id)]
    IN  TimerProcessQueue(s1)

RECURSIVE TimerEnqueueActions(_, _, _, _)
TimerEnqueueActions(s, plan, v, p) ==
    IF plan = <<>> THEN s
    ELSE LET a == Head(plan)
             s1 == IF a = "upload"
                   THEN TimerQueueOperation(s, "upload", v, UPLOAD_PRIORITY, p)
                   ELSE IF a = "download"
                        THEN TimerQueueOperation(s, "download", v, DOWNLOAD_PRIORITY, p)
                        ELSE s
         IN  TimerEnqueueActions(s1, Tail(plan), v, p)

\* the status processOperation writes when an operation has ended
TimerStatus(s, progress, completed, failed) ==
    IF completed + failed >= progress.total /\ Cardinality(s.act) = 0 /\ Len(s.q) = 0
    THEN "completed" ELSE progress.status

\* processOperation after uploadFile / downloadFile returned: the id is
\* deleted, the snapshot updated, a timer of 10 ms set
TimerSucceed(s, id) ==
    LET v == s.ops[id].vaultId
        s1 == [s EXCEPT !.act = @ \ {id}, !.ph[id] = "none"]
        s2 == IF v \in DOMAIN s1.prog
              THEN LET progress == s1.prog[v]
                   IN  [s1 EXCEPT !.prog = UpdateProgress(@, v,
                           [completed |-> progress.completed + 1,
                            inProgress |-> Cardinality(s1.act),
                            status |-> TimerStatus(s1, progress,
                                                   progress.completed + 1,
                                                   progress.failed)])]
              ELSE s1
    IN  [s2 EXCEPT !.tm = @ + 1]

\* the catch block of processOperation of the timer-driven variant: with
\* retries left the operation is pushed on the queue and its id stays in
\* activeOperations; otherwise the id is deleted and the snapshot updated;
\* then a timer of 10 ms is set
TimerFail(s, id) ==
    LET v == s.ops[id].vaultId
        op == s.ops[id]
        s0 == [s EXCEPT !.hist[id].failures = @ + 1, !.ph[id] = "none"]
        s2 == IF op.retries < op.maxRetries
              THEN [s0 EXCEPT !.ops[id].retries = @ + 1,
                              !.ops[id].priority = Max(0, @ - 1),
                              !.q = Append(@, id),
                              !.hist[id].enqueuedAt = Pushes(s.ops) + 1]
              ELSE LET s1 == [s0 EXCEPT !.act = @ \ {id}]
                   IN  IF v \in DOMAIN s1.prog
                       THEN LET progress == s1.prog[v]
                            IN  [s1 EXCEPT !.prog = UpdateProgress(@, v,
                                    [failed |-> progress.failed + 1,
                                     inProgress |-> Cardinality(s1.act),
                                     status |-> TimerStatus(s1, progress,
                                                            progress.completed,
                                                            progress.failed + 1)])]
                       ELSE s1
    IN  [s2 EXCEPT !.tm = @ + 1]

\* performBackgroundSync of the timer-driven variant up to await checkSync
TimerPerformBackgroundSync(v) ==
    /\ operationQueue' = FilterQueue(operationQueue, operations, v)
    /\ passes' = Append(passes, [vaultId |-> v, pc |-> "checkSync", remaining |-> 0,
                                 actions |-> <<>>, request |-> {},
                                 checkedAt |-> environment, notified |-> FALSE])
    /\ UNCHANGED <<activeOperations, isProcessingQueue, progressCallbacks, syncProgress,
                   operations, masterKey, phase, history, microtasks, ioFailures>>
    /\ UNCHANGED fileVars
    /\ UNCHANGED modalVars
    /\ UNCHANGED timerVars

\* checkSync and getLocalFiles returned: the snapshot is reset, the callback
\* registered, the actions enqueued, the status set to processing
TimerCheckSyncReturns(p, plan) ==
    /\ passes[p].pc = "checkSync"
    /\ LET v == passes[p].vaultId
           fresh == [total |-> Len(plan), completed |-> 0, failed |-> 0, inProgress |-> 0,
                     status |-> IF Len(plan) > 0 THEN "syncing" ELSE "completed"]
           s0 == [Sched EXCEPT
                    !.prog = [x \in (DOMAIN syncProgress) \cup {v} |->
                                 IF x = v THEN fresh ELSE syncProgress[x]],
                    !.ps[p].pc = "returned"]
           done == [status |-> IF Len(plan) = 0 THEN "completed" ELSE "processing"]
           s1 == IF Len(plan) = 0 THEN s0 ELSE TimerEnqueueActions(s0, plan, v, p)
       IN  /\ progressCallbacks' = progressCallbacks \cup {v}
           /\ Install([s1 EXCEPT !.prog = UpdateProgress(@, v, done)])
    /\ UNCHANGED <<masterKey, ioFailures>>
    /\ UNCHANGED fileVars
    /\ UNCHANGED modalVars

\* checkSync threw: the catch block of performBackgroundSync sets the status
\* to error and throws on
TimerCheckSyncFails(p) ==
    /\ passes[p].pc = "checkSync"
    /\ Install([Sched EXCEPT !.prog = UpdateProgress(@, passes[p].vaultId,
                                                     [status |-> "error"]),
                             !.ps[p].pc = "rejected"])
    /\ UNCHANGED <<progressCallbacks, masterKey, ioFailures>>
    /\ UNCHANGED fileVars
    /\ UNCHANGED modalVars

\* uploadFile / downloadFile of an executing operation returned
TimerAttemptSucceeds(id) ==
    /\ phase[id] = "io"
    /\ operations[id].type = "upload" => masterKey
    /\ Install(TimerSucceed(Sched, id))
    /\ UNCHANGED <<progressCallbacks, masterKey, ioFailures>>
    /\ UNCHANGED fileVars
    /\ UNCHANGED modalVars

\* uploadFile / downloadFile of an executing operation threw
TimerAttemptFails(id) ==
    /\ phase[id] = "io"
    /\ Install(TimerFail(Sched, id))
    /\ ioFailures' = ioFailures + 1
    /\ UNCHANGED <<progressCallbacks, masterKey>>
    /\ UNCHANGED fileVars
    /\ UNCHANGED modalVars

\* a timer set by processOperation or processQueue fires
TimerFires ==
    /\ timers > 0
    /\ Install(TimerProcessQueue([Sched EXCEPT !.tm = @ - 1]))
    /\ UNCHANGED <<progressCallbacks, masterKey, ioFailures>>
    /\ UNCHANGED fileVars
    /\ UNCHANGED modalVars

\* Light load, every kind of event but conflicts: two vaults, overlapping passes,
\* log-in and log-out, transport failures, clearSyncProgress.
Next ==
    \/ \E v \in Vaults : Len(passes) < MaxPasses /\ PerformBackgroundSync(v)
    \/ \E p \in 1..Len(passes), plan \in Plans :
            Len(operations) + Enqueued(plan) <= MaxOps /\ CheckSyncReturns(p, plan)
    \/ \E p \in 1..Len(passes) : CheckSyncFails(p)
    \/ \E id \in 1..Len(operations) : AttemptSucceeds(id)
    \/ \E id \in 1..Len(operations) : ioFailures < MaxIoFailures /\ AttemptFails(id)
    \/ SetMasterKey
    \/ ClearMasterKey
    \/ \E v \in Vaults : ClearSyncProgress(v)
    \/ RunMicrotask

Spec == Init /\ [][Next]_vars

\* The scheduler under load: vaults with many files out of sync and nobody
\* logged in, so that every upload throws at once and every download waits for
\* its transport.
NextLoad ==
    \/ \E v \in Vaults : Len(passes) < MaxPasses /\ PerformBackgroundSync(v)
    \/ \E p \in 1..Len(passes), plan \in LoadPlans :
            Len(operations) + Enqueued(plan) <= LoadOps /\ CheckSyncReturns(p, plan)
    \/ \E id \in 1..Len(operations) : AttemptSucceeds(id)
    \/ \E v \in Vaults : ClearSyncProgress(v)
    \/ RunMicrotask

SpecLoad == Init /\ [][NextLoad]_vars

\* The drain under fair scheduling: the event loop runs every pending promise
\* reaction, and every transport call an attempt waits for returns.
NextDrain ==
    \/ \E v \in Vaults : Len(passes) < DrainPasses /\ PerformBackgroundSync(v)
    \/ \E p \in 1..Len(passes), plan \in DrainPlans :
            Len(operations) + Enqueued(plan) <= DrainOps /\ CheckSyncReturns(p, plan)
    \/ \E id \in 1..Len(operations) : AttemptSucceeds(id)
    \/ \E v \in Vaults : ClearSyncProgress(v)
    \/ RunMicrotask

SpecDrain ==
    /\ Init
    /\ [][NextDrain]_vars
    /\ WF_vars(RunMicrotask)
    /\ WF_vars(\E id \in 1..Len(operations) : AttemptSucceeds(id))

\* Passes called with an onProgress callback whose plan fetch succeeds, with
\* weak fairness of the microtask queue and of the completion of executing
\* attempts: every pass runs to its end.
NextNotify ==
    \/ \E v \in Vaults : Len(passes) < NotifyPasses /\ PerformBackgroundSync(v)
    \/ \E p \in 1..Len(passes), plan \in Plans :
            Len(operations) + Enqueued(plan) <= MaxOps /\ CheckSyncReturns(p, plan)
    \/ \E id \in 1..Len(operations) : AttemptSucceeds(id)
    \/ SetMasterKey
    \/ RunMicrotask

SpecNotify ==
    /\ Init
    /\ [][NextNotify]_vars
    /\ WF_vars(RunMicrotask)
    /\ WF_vars(\E id \in 1..Len(operations) : AttemptSucceeds(id))

\* the plans of a vault in sync and of a vault with enough notes to fetch to
\* fill the slots
TimerPlans == {<<>>, Repeat("download", TimerDownloads)}

\* The timer-driven scheduler on one pass whose downloads fail and are
\* retried.
NextTimer ==
    \/ \E v \in Vaults : Len(passes) < TimerPasses /\ TimerPerformBackgroundSync(v)
    \/ \E p \in 1..Len(passes), plan \in TimerPlans : TimerCheckSyncReturns(p, plan)
    \/ \E p \in 1..Len(passes) : TimerCheckSyncFails(p)
    \/ \E id \in 1..Len(operations) : TimerAttemptSucceeds(id)
    \/ \E id \in 1..Len(operations) : ioFailures < TimerFailures /\ TimerAttemptFails(id)
    \/ TimerFires

SpecTimer == Init /\ [][NextTimer]_vars

\* The planner: one pass on every answer the remote store may give to
\* checkSync, for every set of notes the vault may hold.
NextPlan ==
    \/ \E v \in Vaults : Len(passes) < PlanPasses /\ PerformBackgroundSync(v)
    \/ \E p \in 1..Len(passes), notes \in SUBSET Paths,
          response \in SeqsUpTo(ServerActions, MaxResponse) :
            CheckSyncResponds(p, LocalFileInfos(notes), response)
    \/ \E id \in 1..Len(operations) : AttemptSucceeds(id)
    \/ RunMicrotask

SpecPlan == Init /\ [][NextPlan]_vars

\* the answers of a remote store that names every path once and asks for an
\* upload or a download of it
RepeatResponses ==
    {r \in SeqsUpTo([relativePath : Paths, action : {"upload", "download"},
                     serverVersion : {3}, fileId : {1}], Cardinality(Paths)) :
        \A j, k \in 1..Len(r) : r[j].relativePath = r[k].relativePath => j = k}

\* performBackgroundSync called again while the operations of the pass before
\* are queued and executing
NextRepeat ==
    \/ \E v \in Vaults : Len(passes) < RepeatPasses /\ PerformBackgroundSync(v)
    \/ \E p \in 1..Len(passes), notes \in SUBSET Paths, response \in RepeatResponses :
            CheckSyncResponds(p, LocalFileInfos(notes), response)
    \/ \E id \in 1..Len(operations) : AttemptSucceeds(id)
    \/ RunMicrotask

SpecRepeat == Init /\ [][NextRepeat]_vars

\* One pass whose operations run into conflicts.
NextConflict ==
    \/ \E v \in Vaults : Len(passes) < ConflictPasses /\ PerformBackgroundSync(v)
    \/ \E p \in 1..Len(passes), plan \in Plans : CheckSyncReturns(p, plan)
    \/ \E id \in 1..Len(operations) : AttemptSucceeds(id)
    \/ \E id \in 1..Len(operations) : ioFailures < MaxIoFailures /\ AttemptFails(id)
    \/ \E id \in 1..Len(operations) : Conflicts < MaxConflicts /\ ConflictDetected(id)
    \/ \E id \in 1..Len(operations) : ResolutionError(id)
    \/ \E id \in 1..Len(operations) : PresentConflictDialog(id)
    \/ \E id \in 1..Len(operations) : DialogResolved(id)
    \/ \E id \in 1..Len(operations) : DialogCancelled(id)
    \/ SetMasterKey
    \/ RunMicrotask

SpecConflict == Init /\ [][NextConflict]_vars

\* uploadFile and downloadFile on one vault, with a user who edits notes and
\* another device that uploads
NextFiles ==
    \/ \E path \in Paths : Len(tasks) < MaxTasks /\ StartUpload(path)
    \/ \E path \in Paths, version \in 1..MaxRemote + MaxTasks :
            Len(tasks) < MaxTasks /\ StartDownload(path, version)
    \/ \E i \in 1..Len(tasks) : ReadMetadata(i)
    \/ \E i \in 1..Len(tasks) : ioFailures < MaxIoFailures /\ ReadMetadataFails(i)
    \/ \E i \in 1..Len(tasks) : CreateMetadata(i)
    \/ \E i \in 1..Len(tasks) : ioFailures < MaxIoFailures /\ CreateMetadataFails(i)
    \/ \E i \in 1..Len(tasks) : UploadAccepted(i)
    \/ \E i \in 1..Len(tasks) : UploadConflict(i)
    \/ \E i \in 1..Len(tasks) : ReadLocal(i)
    \/ \E i \in 1..Len(tasks) : DownloadReturns(i)
    \/ \E i \in 1..Len(tasks) : PresentDialog(i)
    \/ \E i \in 1..Len(tasks), choice \in {"keep-local", "use-server"} :
            DialogResolves(i, choice, <<>>)
    \/ \E i \in 1..Len(tasks), mergedContent \in EditorTexts :
            DialogResolves(i, "merge", mergedContent)
    \/ \E i \in 1..Len(tasks) : ExecuteResolution(i)
    \/ \E i \in 1..Len(tasks) : DialogCancels(i)
    \/ \E i \in 1..Len(tasks) : ForceAccepted(i)
    \/ \E i \in 1..Len(tasks) : WriteLocal(i)
    \/ \E i \in 1..Len(tasks) : WriteMetadata(i)
    \/ \E i \in 1..Len(tasks) : ioFailures < MaxIoFailures /\ StepFails(i)
    \/ \E path \in Paths, content \in Texts :
            environment.edits < MaxEdits /\ LocalEdit(path, content)
    \/ \E path \in Paths, content \in Texts :
            environment.uploads < MaxRemote /\ RemoteUpload(path, content)
    \/ SetMasterKey

SpecFiles == Init /\ [][NextFiles]_vars

\* Whole passes on the files of one vault: the user and another device act
\* between passes, every pass asks the remote store and runs its calls
NextSync ==
    \/ Len(passes) < SyncPasses /\ SyncPass("v1")
    \/ \E i \in 1..Len(tasks) : ReadMetadata(i)
    \/ \E i \in 1..Len(tasks) : ioFailures < MaxIoFailures /\ ReadMetadataFails(i)
    \/ \E i \in 1..Len(tasks) : UploadAccepted(i)
    \/ \E i \in 1..Len(tasks) : UploadConflict(i)
    \/ \E i \in 1..Len(tasks) : ReadLocal(i)
    \/ \E i \in 1..Len(tasks) : DownloadReturns(i)
    \/ \E i \in 1..Len(tasks) : PresentDialog(i)
    \/ \E i \in 1..Len(tasks), choice \in {"keep-local", "use-server"} :
            DialogResolves(i, choice, <<>>)
    \/ \E i \in 1..Len(tasks), mergedContent \in EditorTexts :
            DialogResolves(i, "merge", mergedContent)
    \/ \E i \in 1..Len(tasks) : ExecuteResolution(i)
    \/ \E i \in 1..Len(tasks) : DialogCancels(i)
    \/ \E i \in 1..Len(tasks) : ForceAccepted(i)
    \/ \E i \in 1..Len(tasks) : WriteLocal(i)
    \/ \E i \in 1..Len(tasks) : WriteMetadata(i)
    \/ \E i \in 1..Len(tasks) : ioFailures < MaxIoFailures /\ StepFails(i)
    \/ \E path \in Paths, content \in Texts :
            AllEnded /\ environment.edits < MaxEdits /\ LocalEdit(path, content)
    \/ \E path \in Paths, content \in Texts :
            AllEnded /\ environment.uploads < MaxRemote /\ RemoteUpload(path, content)
    \/ SetMasterKey

SpecSync == Init /\ [][NextSync]_vars

\* -------------------------------------------------------------- observables
\* an attempt of the operation has started and has not finished
Executing(id) == phase[id] # "none"

ExecutingOps == {id \in 1..Len(operations) : Executing(id)}

\* the operation is in operationQueue
Queued(id) == \E k \in 1..Len(operationQueue) : operationQueue[k] = id

\* the operation was taken out of the queue by a clear: nothing will start it
Dropped(id) ==
    history[id].handle = "pending" /\ ~Queued(id) /\ ~Executing(id)

\* ------------------------------------------------------------------- claims
\* C1: at no point are more than 5 operations executing, across all vaults
C1_AtMostFiveExecuting ==
    Cardinality(ExecutingOps) <= MAX_CONCURRENT_OPERATIONS

\* all five slots taken, a backlog waiting, and a failed attempt re-enqueued
C1_FullWithBacklog ==
    /\ Cardinality(ExecutingOps) = MAX_CONCURRENT_OPERATIONS
    /\ operationQueue # <<>>
    /\ \E id \in 1..Len(operations) : operations[id].retries > 0

\* C2: in every SyncProgress snapshot of a vault completed + failed <= total,
\* also when passes for the same vault overlap
C2_TerminalsWithinTotal ==
    \A v \in DOMAIN syncProgress :
        syncProgress[v].completed + syncProgress[v].failed <= syncProgress[v].total

\* C3: the status of a vault is completed only when completed + failed >= total,
\* no operation of the vault is executing and none is queued
C3_CompletedOnlyWhenDrained ==
    \A v \in DOMAIN syncProgress :
        syncProgress[v].status = "completed" =>
            /\ syncProgress[v].completed + syncProgress[v].failed >= syncProgress[v].total
            /\ \A id \in 1..Len(operations) :
                   operations[id].vaultId = v => ~Executing(id) /\ ~Queued(id)

\* C4: every handle queueOperation returned eventually settles; as a property
\* of states: a handle that has not settled belongs to an operation that is
\* queued or executing, the only operations an attempt can still end for
C4_PendingHandleCanSettle ==
    \A id \in 1..Len(operations) : ~Dropped(id)

\* C5: an operation whose attempts all fail is attempted 4 times and then
\* rejected: never a fifth attempt, and never at rest after fewer than 4
\* failed attempts without being marked failed
C5_FourAttemptsThenFailed ==
    \A id \in 1..Len(operations) :
        /\ history[id].attempts <= MAX_RETRIES + 1
        /\ (/\ history[id].attempts > 0
            /\ ~Queued(id)
            /\ ~Executing(id)
            /\ history[id].handle # "resolved")
           => (history[id].attempts = MAX_RETRIES + 1 /\ history[id].handle = "rejected")

\* the version of the conflict-resolved response: the server's version for
\* use-server, the forced version after it for keep-local and merge
ResolvedVersion(t) ==
    IF t.choice = "use-server" THEN t.serverVersion ELSE t.serverVersion + 1

\* C6: the version a successful upload records for its path is one more than
\* the version recorded when the upload started, or the conflict-resolved
\* version when the upload went through conflict resolution
C6_UploadRecordsNextVersion ==
    [][\A i \in 1..Len(tasks) :
          (tasks[i].kind = "upload" /\ tasks[i].pc = "record" /\ tasks'[i].pc = "done") =>
              /\ tasks[i].path \in DOMAIN metadataFile'.entries
              /\ metadataFile'.entries[tasks[i].path].version =
                    IF tasks[i].route = "conflict" THEN ResolvedVersion(tasks[i])
                    ELSE tasks[i].before + 1]_vars

\* an upload that started from a recorded version and one that went through
\* conflict resolution have both recorded their version
C6_UploadsRecorded ==
    /\ \E i \in 1..Len(tasks) :
           tasks[i].kind = "upload" /\ tasks[i].pc = "done" /\ tasks[i].route = "conflict"
    /\ \E path \in DOMAIN metadataFile.entries : metadataFile.entries[path].version >= 2

C8_EntriesAreKept ==
    [][\A path \in DOMAIN metadataFile.entries : path \in DOMAIN metadataFile'.entries]_vars

\* what a clear of vault v may change: the queue loses the operations of v and
\* nothing else, in the same order; the active set and every executing
\* attempt stay as they are
ClearFrame(v) ==
    /\ operationQueue' = SelectSeq(operationQueue, LAMBDA id : operations[id].vaultId # v)
    /\ activeOperations' = activeOperations
    /\ phase' = phase
    /\ operations' = operations
    /\ history' = history

\* C9: clearing a vault removes exactly the queued operations of that vault
C9_ClearRemovesQueuedOfVault ==
    [][\A v \in Vaults :
          (PerformBackgroundSync(v) \/ ClearSyncProgress(v)) => ClearFrame(v)]_vars

\* a clear has dropped a queued operation while operations of the same vault
\* were executing and operations of the other vault were queued
C9_ClearedBesideOthers ==
    \E d \in 1..Len(operations) :
        /\ Dropped(d)
        /\ \E e \in ExecutingOps : operations[e].vaultId = operations[d].vaultId
        /\ \E k \in 1..Len(operationQueue) :
               operations[operationQueue[k]].vaultId # operations[d].vaultId

\* C10: an operation whose conflict resolution failed is abandoned: it is not
\* queued or executed again and the dialog is not presented again for it
C10_AbandonedAfterResolutionFailure ==
    \A id \in 1..Len(operations) :
        history[id].conflictFailures > 0 =>
            /\ ~Queued(id)
            /\ ~Executing(id)
            /\ history[id].dialogs <= 1

\* C11: without a master key an upload is attempted exactly once and then
\* marked permanently failed: once its attempt has thrown for the missing
\* key, the operation has had one attempt, is not queued again and is rejected
C11_NoKeyUploadFailsOnce ==
    \A id \in 1..Len(operations) :
        (history[id].preconditionFailures > 0 /\ ~Executing(id)) =>
            /\ history[id].attempts = 1
            /\ ~Queued(id)
            /\ history[id].handle = "rejected"

\* the operations performBackgroundSync call p enqueued
OpsOfPass(p) == {id \in 1..Len(operations) : operations[id].pass = p}

\* C12: a pass that has enqueued its operations never rejects; it has returned
\* exactly when every operation it enqueued has settled and the reactions to
\* that have run, whichever of them were rejected; and every operation of a
\* pass that has returned was attempted
C12_PassResolvesWhenAllSettled ==
    \A p \in 1..Len(passes) :
        /\ OpsOfPass(p) # {} => passes[p].pc \in {"allSettled", "returned"}
        /\ passes[p].pc = "returned" =>
               \A id \in OpsOfPass(p) :
                   history[id].handle # "pending" /\ history[id].attempts >= 1
        /\ (passes[p].pc = "allSettled" /\ Idle) =>
               \E id \in OpsOfPass(p) : history[id].handle = "pending"

\* a pass has returned with one operation rejected and another resolved
C12_ReturnedWithFailure ==
    \E p \in 1..Len(passes) :
        /\ passes[p].pc = "returned"
        /\ \E id \in OpsOfPass(p) : history[id].handle = "rejected"
        /\ \E id \in OpsOfPass(p) : history[id].handle = "resolved"

\* C13: a pass whose plan fetch failed has rejected, and the step that rejects
\* it creates, enqueues and starts no operation
C13_FailedFetchEnqueuesNothing ==
    [][\A p \in 1..Len(passes) :
          (passes[p].pc = "checkSync" /\ passes'[p].pc = "rejected") =>
              /\ operations' = operations
              /\ operationQueue' = operationQueue
              /\ activeOperations' = activeOperations
              /\ phase' = phase
              /\ OpsOfPass(p) = {}]_vars

\* a pass was rejected while operations of another pass were queued and executing
C13_RejectedBesideWork ==
    \E p \in 1..Len(passes) :
        /\ passes[p].pc = "rejected"
        /\ OpsOfPass(p) = {}
        /\ operationQueue # <<>>
        /\ ExecutingOps # {}

\* C14: no operation was ever started while the queue held an operation of
\* higher priority, or one of the same priority that had entered the queue
\* earlier
C14_StartedInPriorityOrder ==
    \A id \in 1..Len(operations) : ~history[id].overtook

\* an operation was started ahead of one that had entered the queue before
\* it, and a retried upload waited behind downloads of the same priority
C14_StartedAheadOfEarlier ==
    /\ \E id \in 1..Len(operations) : history[id].jumped
    /\ \E id \in 1..Len(operations) :
           /\ operations[id].type = "upload"
           /\ operations[id].retries = 1
           /\ history[id].attempts = 2

\* the priority an operation of this type is enqueued with
InitialPriority(type) == IF type = "upload" THEN UPLOAD_PRIORITY ELSE DOWNLOAD_PRIORITY

\* C15: retries counts the failed attempts up to 3, the priority is
\* max(0, p - retries) and never negative, a failure with retries left puts
\* the operation back in the queue, and a failure with retries = 3 rejects it
\* without enqueueing it
C15_RetryLowersPriority ==
    /\ [](\A id \in 1..Len(operations) :
            /\ operations[id].retries <= MAX_RETRIES
            /\ operations[id].priority >= 0
            /\ operations[id].priority =
                   Max(0, InitialPriority(operations[id].type) - operations[id].retries)
            /\ operations[id].retries =
                   IF history[id].failures <= MAX_RETRIES THEN history[id].failures
                   ELSE MAX_RETRIES
            /\ history[id].handle = "rejected" =>
                   history[id].failures = MAX_RETRIES + 1 /\ ~Queued(id))
    /\ [][\A id \in 1..Len(operations) :
            history'[id].failures # history[id].failures =>
                IF operations[id].retries < MAX_RETRIES
                THEN /\ operations'[id].retries = operations[id].retries + 1
                     /\ operationQueue'[Len(operationQueue')] = id
                     /\ history'[id].handle = "pending"
                ELSE /\ history'[id].handle = "rejected"
                     /\ operationQueue' = operationQueue]_vars

\* an upload has failed three times and waits in the queue at priority 0
\* behind its floor, and an operation has been rejected after its fourth failure
C15_SunkToFloor ==
    /\ \E id \in 1..Len(operations) :
           /\ operations[id].type = "upload"
           /\ operations[id].retries = MAX_RETRIES
           /\ operations[id].priority = 0
           /\ Queued(id)
    /\ \E id \in 1..Len(operations) : history[id].handle = "rejected"

\* the drains in progress: the calls of processQueue that have not reached
\* their finally block yet
DrainsInProgress ==
    Cardinality({k \in 1..Len(microtasks) : microtasks[k].job = "processQueueFinally"})

\* C16: there is never more than one drain in progress, isProcessingQueue
\* tells whether there is one, and every operation in the queue is eventually
\* started, or taken out of the queue by a clear of its vault
C16_ReentrantDrain ==
    /\ [](DrainsInProgress = IF isProcessingQueue THEN 1 ELSE 0)
    /\ \A id \in 1..DrainOps :
           (id <= Len(operations) /\ Queued(id))
               ~> (id <= Len(operations) /\ (Executing(id) \/ Dropped(id)))

\* processQueue was called while a drain was in progress: an operation is
\* queued with free slots, and nothing but the finally of an executing
\* attempt will start it
C16_EnqueuedDuringDrain ==
    /\ isProcessingQueue
    /\ operationQueue # <<>>
    /\ Cardinality(activeOperations) < MAX_CONCURRENT_OPERATIONS
    /\ \E id \in 1..Len(operations) : history[id].attempts = 0 /\ Queued(id)

\* C17: every action checkSync returned has kind none, upload or download,
\* and every operation enqueued is an upload or a download
C17_NoConflictAction ==
    /\ \A p \in 1..Len(passes) : \A i \in 1..Len(passes[p].actions) :
           passes[p].actions[i].action \in {"none", "upload", "download"}
    /\ \A id \in 1..Len(operations) : operations[id].type \in {"upload", "download"}

\* the UploadFileRequest and content a forced upload is issued with
ForcedRequest(version, content) ==
    [version |-> version, content |-> content, hash |-> generateContentHash(content)]

\* C18: executing the choice made for an upload conflict has exactly one
\* outcome. keep-local issues a forced upload of the original local content at
\* currentServerVersion + 1; merge issues a forced upload of the merged text
\* with its recomputed fingerprint at currentServerVersion + 1; use-server
\* issues no upload and returns currentServerVersion as the version
C18_ChoiceOutcomes ==
    [][\A i \in 1..Len(tasks) :
          (tasks[i].kind = "upload" /\ tasks[i].pc = "resolved"
              /\ tasks'[i].pc # "resolved") =>
              LET t == tasks[i]
                  u == tasks'[i]
              IN  /\ serverFiles' = serverFiles
                  /\ t.choice \in {"keep-local", "use-server", "merge"}
                  /\ t.choice = "keep-local" =>
                         /\ u.pc = "force"
                         /\ u.request = [version |-> t.serverVersion + 1,
                                         content |-> t.content, hash |-> t.hash]
                  /\ t.choice = "merge" =>
                         /\ u.pc = "force"
                         /\ u.request = ForcedRequest(t.serverVersion + 1, t.merged)
                  /\ t.choice = "use-server" =>
                         /\ u.pc = "reread"
                         /\ u.version = t.serverVersion
                         /\ u.request = NoRequest]_vars

\* an upload conflict was resolved by a merge whose text differs from the
\* local content and is being force-uploaded, and another upload conflict
\* has run to its end
C18_AllChoicesExecuted ==
    /\ \E i \in 1..Len(tasks) :
           /\ tasks[i].kind = "upload"
           /\ tasks[i].pc = "force"
           /\ tasks[i].choice = "merge"
           /\ tasks[i].request.content # tasks[i].content
    /\ \E i \in 1..Len(tasks) :
           tasks[i].kind = "upload" /\ tasks[i].pc = "done" /\ tasks[i].route = "conflict"

\* the content that wins a download conflict
WinningContent(t) ==
    CASE t.choice = "keep-local" -> t.localContent
      [] t.choice = "use-server" -> ServerContent(t)
      [] t.choice = "merge" -> t.merged

\* C19: for a download conflict the winning content is the local content for
\* keep-local, the server content for use-server and the merged text for
\* merge, with shouldUpload true exactly for keep-local and merge. downloadFile
\* then writes the winning content to the local file, and after recording it
\* issues a forced upload of it at serverVersion + 1 if and only if
\* shouldUpload is true
C19_DownloadChoiceOutcomes ==
    [][\A i \in 1..Len(tasks) :
          (tasks[i].kind = "download" /\ tasks[i].route = "conflict"
              /\ tasks'[i].pc # tasks[i].pc) =>
              LET t == tasks[i]
                  u == tasks'[i]
              IN  /\ t.pc = "resolved" =>
                         /\ u.pc = "writeLocal"
                         /\ u.content = WinningContent(t)
                         /\ u.shouldUpload = (t.choice \in {"keep-local", "merge"})
                  /\ (t.pc = "writeLocal" /\ u.pc # "failed") =>
                         /\ t.path \in DOMAIN localFiles'
                         /\ localFiles'[t.path] = t.content
                  /\ (t.pc = "record" /\ u.pc # "failed") =>
                         IF t.shouldUpload
                         THEN /\ u.pc = "force"
                              /\ u.request.version = t.version + 1
                              /\ u.request.content = t.content
                         ELSE u.pc = "done"
                  /\ u.pc = "force" => t.pc = "record" /\ t.shouldUpload]_vars

\* a download conflict was resolved by a merge whose text is neither side's:
\* the merged text is in the local file and its forced upload has been issued
C19_MergedWrittenAndUploaded ==
    \E i \in 1..Len(tasks) :
        /\ tasks[i].kind = "download"
        /\ tasks[i].pc = "force"
        /\ tasks[i].choice = "merge"
        /\ tasks[i].merged # tasks[i].localContent
        /\ tasks[i].merged # ServerContent(tasks[i])
        /\ tasks[i].path \in DOMAIN localFiles
        /\ localFiles[tasks[i].path] = tasks[i].merged
        /\ tasks[i].request.content = tasks[i].merged

\* C20: a call whose forced re-upload after a resolved conflict failed has
\* not returned normally, so that the scheduler does not count it completed
C20_FailedForceNotCompleted ==
    \A i \in 1..Len(tasks) : tasks[i].forceFailed => tasks[i].pc # "done"

\* C21: a call one of whose metadata writes failed has not returned normally,
\* so that the scheduler does not count its operation completed
C21_FailedMetadataWriteNotCompleted ==
    \A i \in 1..Len(tasks) : tasks[i].metadataWriteFailed => tasks[i].pc # "done"

RecordedEntries == IF metadataFile.exists THEN metadataFile.entries ELSE NoEntries

\* C23: for every note without metadata entry checkSync reports version 1,
\* and when the upload of a note that had no entry is accepted by the remote
\* store, the metadata written holds for its path version 1 and the
\* fingerprint of the uploaded content
C23_FirstUploadRecordsVersionOne ==
    [][/\ Len(passes') > Len(passes) =>
            \A x \in (DOMAIN localFiles) \ (DOMAIN RecordedEntries) :
                \E info \in passes'[Len(passes')].request :
                    /\ info.relativePath = x
                    /\ info.version = 1
                    /\ info.contentHash = generateContentHash(localFiles[x])
       /\ \A i \in 1..Len(tasks) :
            (/\ tasks[i].kind = "upload"
             /\ tasks[i].route = "plain"
             /\ tasks[i].before = 0
             /\ tasks[i].pc = "record"
             /\ tasks'[i].pc = "done") =>
                /\ tasks[i].path \in DOMAIN metadataFile'.entries
                /\ metadataFile'.entries[tasks[i].path] =
                       [version |-> 1, hash |-> generateContentHash(tasks[i].content)]]_vars

\* a note that had no entry was reported, uploaded and recorded at version 1,
\* and the remote store holds its content as version 1
C23_NewNoteSynced ==
    /\ passes # <<>>
    /\ \E i \in 1..Len(tasks) :
           /\ tasks[i].kind = "upload"
           /\ tasks[i].pc = "done"
           /\ tasks[i].route = "plain"
           /\ tasks[i].path \in DOMAIN RecordedEntries
           /\ RecordedEntries[tasks[i].path].version = 1
           /\ tasks[i].path \in DOMAIN localFiles
           /\ ServerVersion(serverFiles, tasks[i].path) = 1
           /\ serverFiles[tasks[i].path][1] = localFiles[tasks[i].path]

\* every call of the last pass has returned normally and neither the user nor
\* another device has changed anything since the pass asked the remote store
Synced ==
    /\ passes # <<>>
    /\ \A i \in 1..Len(tasks) : tasks[i].pc = "done"
    /\ passes[Len(passes)].checkedAt = environment

\* C24: once a pass has completed every operation it planned and nothing has
\* changed since, the remote store answers the next checkSync with none for
\* every path
C24_SecondCheckAllNone ==
    Synced =>
        \A x \in Paths :
            RemoteAnswers(serverFiles,
                          SyncRequest(GetLocalFiles(RecordedEntries, localFiles)), x)
                \subseteq {"none", "absent"}

\* the content an upload conflict was resolved to
ResolvedContent(t) ==
    CASE t.choice = "keep-local" -> t.content
      [] t.choice = "use-server" -> ServerContent(t)
      [] t.choice = "merge" -> t.merged

\* C25: the entry an upload writes after its conflict was resolved has the
\* fingerprint of the local content for keep-local, of the server's content
\* for use-server and of the merged text for merge, and the remote store
\* holds content of that fingerprint at the recorded version
C25_RecordedDescribesServer ==
    [][\A i \in 1..Len(tasks) :
          (/\ tasks[i].kind = "upload"
           /\ tasks[i].route = "conflict"
           /\ tasks[i].pc = "record"
           /\ tasks'[i].pc = "done") =>
              LET t == tasks[i]
                  entry == metadataFile'.entries[t.path]
              IN  /\ entry.hash = generateContentHash(ResolvedContent(t))
                  /\ entry.version \in 1..ServerVersion(serverFiles, t.path)
                  /\ entry.hash =
                         generateContentHash(serverFiles[t.path][entry.version])]_vars

\* C26: a download that found a local file for which the metadata it read has
\* no entry (none recorded, or the metadata could not be read) has not
\* written other content over it without presenting the conflict dialog
C26_NoSilentOverwrite ==
    \A i \in 1..Len(tasks) :
        (/\ tasks[i].kind = "download"
         /\ tasks[i].wroteLocal
         /\ tasks[i].localContent # <<>>
         /\ tasks[i].path \notin DOMAIN tasks[i].metadata
         /\ tasks[i].content # tasks[i].localContent) =>
            tasks[i].dialogs >= 1

\* the operation is queued or executing
Live(id) == Queued(id) \/ Executing(id)

\* C27: no two operations for the same vault and the same relative path are
\* queued or executing together
C27_OneOperationPerPath ==
    \A a, b \in 1..Len(operations) :
        (/\ a # b
         /\ operations[a].vaultId = operations[b].vaultId
         /\ operations[a].data # NoData
         /\ operations[a].data = operations[b].data
         /\ Live(a)) => ~Live(b)

\* C28: every executing attempt is counted in activeOperations: no operation
\* was started again while the id of its previous attempt was still in the
\* set, to be removed by the completion handler of that attempt
C28_ExecutingAreCounted ==
    \A id \in 1..Len(operations) : Executing(id) => id \in activeOperations

\* the operations of vault v that are executing
ExecutingOf(v) == {id \in ExecutingOps : operations[id].vaultId = v}

\* C29: whenever no promise reaction is pending, the inProgress of every
\* vault's snapshot is the number of operations of that vault that are
\* executing
C29_InProgressPerVault ==
    Idle => \A v \in DOMAIN syncProgress :
                syncProgress[v].inProgress = Cardinality(ExecutingOf(v))

\* C30: once the user has acted on every dialog shown, the modal holding
\* none, no operation is executing with its presentConflictDialog promise
\* pending
C30_NoDialogLeftPending ==
    conflictData = 0 => \A id \in 1..Len(operations) : phase[id] # "dialog"

\* the plan fetch of pass p has succeeded
Fetched(p) == p <= Len(passes) /\ passes[p].pc \in {"allSettled", "returned"}

\* the onProgress callback of pass p has been given a snapshot with status
\* completed: syncVault resolves, or rejects when refreshFiles fails
Notified(p) == p <= Len(passes) /\ passes[p].notified

\* C31: the callback of every pass whose plan fetch succeeded is eventually
\* given a snapshot with status completed
C31_CallbackGetsCompleted ==
    \A p \in 1..NotifyPasses : Fetched(p) ~> Notified(p)

\* C33: a vault whose progress was cleared and for which performBackgroundSync
\* was not called since has no snapshot in the Map, getSyncProgress returns
\* null, whatever the operations and passes of the vault that were under way
\* have done since.  Only performBackgroundSync registers a callback and only
\* clearSyncProgress removes it, so these are the vaults that have passes and
\* no callback.
C33_ClearedStaysCleared ==
    \A v \in Vaults :
        (v \notin progressCallbacks /\ \E p \in 1..Len(passes) : passes[p].vaultId = v)
            => v \notin DOMAIN syncProgress

\* operation id waits in the queue
InQueue(id) == \E k \in 1..Len(operationQueue) : operationQueue[k] = id

\* C32: in the timer-driven scheduler the operations that wait in the queue
\* for a retry hold no slot, so the queue can drain: whenever operations wait,
\* a slot is free for the next timer to start one, or some operation that
\* holds a slot is executing and frees it when it ends
C32_QueueCanDrain ==
    operationQueue # <<>> =>
        \/ Cardinality(activeOperations) < MAX_CONCURRENT_OPERATIONS
        \/ \E id \in activeOperations : ~InQueue(id)

====
